---- MODULE Spec2Model ----
(***************************************************************************)
(* A model of writeup v0 (src/writeup/v0.py): the line classifier, the     *)
(* block tree builder, the inline span converter, the embed resolver and   *)
(* the renderer.                                                           *)
(*                                                                         *)
(* Text is a sequence of symbols.  A symbol is a string standing for one   *)
(* character (" ", "#", "*", "<", ":" ...) or for a run of word characters *)
(* that the program never looks inside ("embed", "missing", "A").  The     *)
(* symbol BACKTICK stands for the backtick character.  Every regular       *)
(* expression and string method of the source is computed on these         *)
(* sequences as the source computes it on characters.                      *)
(***************************************************************************)
EXTENDS Naturals, Integers, Sequences, FiniteSets, TLC

VARIABLES src_path, alphabet, pc, nread, lines_read, ctx, result

vars == <<src_path, alphabet, pc, nread, lines_read, ctx, result>>

(***************************************************************************)
(* Bounds of the model.                                                    *)
(***************************************************************************)
\* The number of content lines read from the input stream after the version line.
MaxLines == 3

(***************************************************************************)
(* Sequence helpers (Python str methods on symbol sequences).              *)
(***************************************************************************)
Min(S) == CHOOSE x \in S : \A y \in S : x <= y

Max(S) == CHOOSE x \in S : \A y \in S : x >= y

BACKTICK == "BACKTICK"

BACKSLASH == "\\"

\* The characters the regex class \s matches inside a line.
Whitespace == {" ", "\t"}

\* The number of leading symbols of s that are in S.
LeadIn(s, S) ==
  LET stops == {i \in 1..Len(s) : s[i] \notin S}
  IN IF stops = {} THEN Len(s) ELSE Min(stops) - 1

\* The number of trailing symbols of s that are in S.
TrailIn(s, S) ==
  LET stops == {i \in 1..Len(s) : s[i] \notin S}
  IN IF stops = {} THEN Len(s) ELSE Len(s) - Max(stops)

From(s, i) == SubSeq(s, i, Len(s))

\* str.strip(): whitespace (newline included) removed at both ends.
str_strip(s) ==
  LET ws == Whitespace \cup {"\n"}
      a == LeadIn(s, ws)
      b == TrailIn(s, ws)
  IN IF a = Len(s) THEN <<>> ELSE SubSeq(s, a + 1, Len(s) - b)

\* str.rstrip('\n')
rstrip_nl(s) == SubSeq(s, 1, Len(s) - TrailIn(s, {"\n"}))

endswith(s, c) == Len(s) > 0 /\ s[Len(s)] = c

\* str.partition(sep) for a one-symbol separator: <<head, sep or empty, tail>>.
partition(s, sep) ==
  LET hits == {i \in 1..Len(s) : s[i] = sep}
  IN IF hits = {} THEN <<s, <<>>, <<>>>>
     ELSE <<SubSeq(s, 1, Min(hits) - 1), <<sep>>, From(s, Min(hits) + 1)>>

\* str.split(sep) for a one-symbol separator: always at least one (maybe empty) word.
RECURSIVE split(_, _)
split(s, sep) ==
  LET p == partition(s, sep)
  IN IF p[2] = <<>> THEN <<s>> ELSE <<p[1]>> \o split(p[3], sep)

\* sep.join(words)
RECURSIVE join(_, _)
join(sep, words) ==
  IF words = <<>> THEN <<>>
  ELSE IF Len(words) = 1 THEN words[1]
  ELSE words[1] \o sep \o join(sep, Tail(words))

\* The concatenation of a sequence of sequences.
RECURSIVE Flatten(_)
Flatten(ss) == IF ss = <<>> THEN <<>> ELSE ss[1] \o Flatten(Tail(ss))

\* str(i) for a natural number, as digit symbols.
Digits == <<"0", "1", "2", "3", "4", "5", "6", "7", "8", "9">>

RECURSIVE str(_)
str(n) == IF n < 10 THEN <<Digits[n + 1]>> ELSE str(n \div 10) \o <<Digits[(n % 10) + 1]>>

\* int(digits) for a sequence of digit symbols.
RECURSIVE int(_)
int(ds) ==
  IF ds = <<>> THEN 0
  ELSE 10 * int(SubSeq(ds, 1, Len(ds) - 1))
       + (CHOOSE d \in 0..9 : Digits[d + 1] = ds[Len(ds)])

(***************************************************************************)
(* Line classifier: version_re, license_re, line_re.                       *)
(***************************************************************************)
\* version_re.fullmatch(version_line): 'writeup v(\d+)\n'.  The result is the
\* digits of group 1, or <<>> when the line does not match.
version_re(version_line) ==
  IF /\ Len(version_line) >= 3
     /\ version_line[1] = "writeup v"
     /\ version_line[Len(version_line)] = "\n"
     /\ \A i \in 2..(Len(version_line) - 1) : version_line[i] \in {Digits[d] : d \in 1..10}
  THEN SubSeq(version_line, 2, Len(version_line) - 1)
  ELSE <<>>

\* license_re.fullmatch(line): '(©|Copyright|Dedicated to the public domain).*'
license_re(line) ==
  /\ Len(line) >= 1
  /\ line[1] \in {"©", "Copyright", "Dedicated to the public domain"}
  /\ "\n" \notin {line[i] : i \in 1..Len(line)}

\* line states.
s_start == 0

s_license == 1

s_section == 2

s_quote == 3

s_code == 4

s_text == 5

s_blank == 6

\* line_re.fullmatch(line).  Groups that did not take part in the match are <<>>;
\* lastgroup is the name of the last named group closed last, or "" for none.
line_re(line) ==
  LET n == LeadIn(line, Whitespace)
      rest == From(line, n + 1)
      none == [lastgroup |-> "", section_indents |-> <<>>, section_hashes |-> <<>>,
               section_spaces |-> <<>>, section_title |-> <<>>, indents |-> <<>>,
               list_star |-> <<>>, list_spaces |-> <<>>, quote |-> <<>>, code |-> <<>>,
               text |-> <<>>]
  IN IF rest # <<>> /\ rest[1] = "#"
     THEN \* \s* #+ \s* .*
          LET h == LeadIn(rest, {"#"})
              after == From(rest, h + 1)
              sp == LeadIn(after, Whitespace)
          IN [none EXCEPT !.lastgroup = "section_title",
                          !.section_indents = SubSeq(line, 1, n),
                          !.section_hashes = SubSeq(rest, 1, h),
                          !.section_spaces = SubSeq(after, 1, sp),
                          !.section_title = From(after, sp + 1)]
     ELSE \* \s* (\* \s*)? ( > \s? .* | \| \s? .* | [^\s] .* | )
          LET star == rest # <<>> /\ rest[1] = "*"
              ls == IF star THEN LeadIn(Tail(rest), Whitespace) ELSE 0
              body == IF star THEN From(rest, 2 + ls) ELSE rest
              \* > and | are followed by an optional single whitespace.
              skip == IF Len(body) >= 2 /\ body[2] \in Whitespace THEN 3 ELSE 2
              m0 == [none EXCEPT !.indents = SubSeq(line, 1, n),
                                 !.list_star = IF star THEN <<"*">> ELSE <<>>,
                                 !.list_spaces = IF star THEN SubSeq(rest, 2, 1 + ls) ELSE <<>>]
          IN IF body = <<>> THEN m0
             ELSE IF body[1] = ">"
               THEN [m0 EXCEPT !.lastgroup = "quote", !.quote = From(body, skip)]
             ELSE IF body[1] = "|"
               THEN [m0 EXCEPT !.lastgroup = "code", !.code = From(body, skip)]
             ELSE [m0 EXCEPT !.lastgroup = "text", !.text = body]

\* line_groups_to_states.get(m.lastgroup, s_blank)
line_groups_to_states(lastgroup) ==
  CASE lastgroup = "section_title" -> s_section
    [] lastgroup = "quote" -> s_quote
    [] lastgroup = "code" -> s_code
    [] lastgroup = "text" -> s_text
    [] OTHER -> s_blank

(***************************************************************************)
(* Span regexes.                                                           *)
(***************************************************************************)
\* The end of a match of Q((?:[^\\Q]|\\Q|\\\\)*)Q' whose opening delimiter is
\* at j - 1, scanning from j; 0 when there is no match.
RECURSIVE quoted_scan(_, _, _)
quoted_scan(text, j, close) ==
  IF j > Len(text) THEN 0
  ELSE IF text[j] = close THEN j
  ELSE IF text[j] = BACKSLASH
    THEN IF j + 1 <= Len(text) /\ text[j + 1] \in {close, BACKSLASH}
         THEN quoted_scan(text, j + 2, close)
         ELSE 0
  ELSE quoted_scan(text, j + 1, close)

\* span_re matched at position i: [lastindex, end]; end = 0 when neither
\* alternative matches there.  Alternative 1 is span_code_pat, 2 is span_angle_pat.
span_re_at(text, i) ==
  IF text[i] = BACKTICK THEN [lastindex |-> 1, end |-> quoted_scan(text, i + 1, BACKTICK)]
  ELSE IF text[i] = "<" THEN [lastindex |-> 2, end |-> quoted_scan(text, i + 1, ">")]
  ELSE [lastindex |-> 0, end |-> 0]

\* The start of the first match of span_re at or after position from; 0 when none.
span_re_search(text, from) ==
  LET starts == {i \in from..Len(text) : span_re_at(text, i).end # 0}
  IN IF starts = {} THEN 0 ELSE Min(starts)

(***************************************************************************)
(* The process: exit(), stderr and the files opened are global to the run, *)
(* so every Ctx carries them in its field world and a child Ctx hands them *)
(* back to its parent.  After exit() nothing else happens: every operation *)
(* below leaves a Ctx whose world has exited unchanged.  documents records *)
(* every Ctx whose parse has returned, as it was at that moment.           *)
(***************************************************************************)
NewWorld == [exited |-> FALSE, stderr |-> <<>>, opened |-> <<>>, documents |-> <<>>]

Exited(c) == c.world.exited

\* errSL(...) of one report: kind is "warning", "error", "exit" or the name of an
\* uncaught exception.
Report(c, kind, msg) ==
  [kind |-> kind, src_path |-> c.src_path, line_num |-> c.line_num + 1, msg |-> msg,
   line |-> c.line]

Ctx_warn(c, msg) ==
  IF Exited(c) THEN c
  ELSE [c EXCEPT !.world.stderr = Append(@, Report(c, "warning", msg))]

Ctx_error(c, msg) ==
  IF Exited(c) THEN c
  ELSE [c EXCEPT !.world.stderr = Append(@, Report(c, "error", msg)),
                 !.world.exited = TRUE]

\* exit(msg) called directly (parse, the version line).
sys_exit(c, msg) ==
  IF Exited(c) THEN c
  ELSE [c EXCEPT !.world.stderr = Append(@, Report(c, "exit", msg)),
                 !.world.exited = TRUE]

\* An uncaught exception (AssertionError, IndexError, AttributeError) ends the run.
Raise(c, exception) ==
  IF Exited(c) THEN c
  ELSE [c EXCEPT !.world.stderr = Append(@, Report(c, exception, "uncaught")),
                 !.world.exited = TRUE]

Ctx_add_dependency(c, dependency) ==
  IF Exited(c) THEN c ELSE [c EXCEPT !.dependencies = Append(@, dependency)]

(***************************************************************************)
(* Paths (os.path) on symbol sequences; "/" is the separator symbol and an *)
(* extension (".txt") is one symbol.                                       *)
(***************************************************************************)
ExtSymbols ==
  {".css", ".csv", ".wu", ".bash", ".js", ".py", ".sh", ".sql", ".swift", ".txt", ".svg",
   ".htm", ".html", ".gif", ".jpeg", ".jpg", ".png", ".foo"}

path_dir(path) ==
  LET seps == {i \in 1..Len(path) : path[i] = "/"}
  IN IF seps = {} THEN <<>> ELSE SubSeq(path, 1, Max(seps) - 1)

path_name(path) ==
  LET seps == {i \in 1..Len(path) : path[i] = "/"}
  IN IF seps = {} THEN path ELSE From(path, Max(seps) + 1)

path_join(a, b) ==
  IF b # <<>> /\ b[1] = "/" THEN b
  ELSE IF a = <<>> \/ endswith(a, "/") THEN a \o b
  ELSE a \o <<"/">> \o b

\* split_ext(path)[1]
split_ext_ext(path) ==
  LET name == path_name(path)
  IN IF Len(name) >= 2 /\ name[Len(name)] \in ExtSymbols THEN <<name[Len(name)]>> ELSE <<>>

(***************************************************************************)
(* The file system the run sees: the files that exist beside the source,   *)
(* by name, with their lines.  Any other path does not exist.              *)
(***************************************************************************)
FileSystem(name) ==
  CASE name = <<"a", ".txt">> -> <<TRUE, << <<"x", "<", "y", "\n">> >> >>
    [] name = <<"x", ".foo">> -> <<TRUE, << <<"z", "\n">> >> >>
    [] name = <<"d", ".wu">> ->
         <<TRUE, << <<"writeup v", "0", "\n">>, <<"#", " ", "D", "\n">>, <<"d", "\n">> >> >>
    [] name = <<"bad", ".wu">> -> <<TRUE, << <<"#", " ", "D", "\n">> >> >>
    [] OTHER -> <<FALSE, <<>> >>

path_exists(path) == FileSystem(path_name(path))[1]

\* open(path): the file object.
open(path) == [name |-> path, lines |-> FileSystem(path_name(path))[2]]

(***************************************************************************)
(* HTML output.  An output line is a sequence of symbols; a tag is one or  *)
(* more symbols that begin with "<".                                       *)
(***************************************************************************)
html_esc_sym(c) ==
  CASE c = "&" -> "&amp;"
    [] c = "<" -> "&lt;"
    [] c = ">" -> "&gt;"
    [] OTHER -> c

html_esc(text) == [i \in 1..Len(text) |-> html_esc_sym(text[i])]

html_esc_attr(text) ==
  [i \in 1..Len(text) |->
     CASE text[i] = "\"" -> "&quot;"
       [] text[i] = "'" -> "&#x27;"
       [] OTHER -> html_esc_sym(text[i])]

\* '  ' * depth
RECURSIVE indent_of(_)
indent_of(depth) == IF depth = 0 THEN <<>> ELSE <<"  ">> \o indent_of(depth - 1)

indent(depth, items) == indent_of(depth) \o items

(***************************************************************************)
(* Spans.                                                                  *)
(***************************************************************************)
NoSpan ==
  [type |-> "None", text |-> <<>>, attrs |-> <<>>, path |-> <<>>, contents |-> <<>>,
   tag |-> <<>>, link |-> <<>>, visible |-> <<>>]

Span(text) == [NoSpan EXCEPT !.type = "Span", !.text = text]

CodeSpan(text) == [NoSpan EXCEPT !.type = "CodeSpan", !.text = text]

BoldSpan(text, attrs) == [NoSpan EXCEPT !.type = "BoldSpan", !.text = text, !.attrs = attrs]

EmbedSpan(text, attrs, path, contents) ==
  [NoSpan EXCEPT !.type = "EmbedSpan", !.text = text, !.attrs = attrs, !.path = path,
                 !.contents = contents]

GenericSpan(text, attrs) ==
  [NoSpan EXCEPT !.type = "GenericSpan", !.text = text, !.attrs = attrs]

\* LinkSpan.__init__ (words is never empty here: span_angle_conv checks it first).
LinkSpan(text, attrs, tag, words) ==
  LET link == IF tag = <<"link">> THEN words[1] ELSE tag \o <<":">> \o words[1]
  IN [NoSpan EXCEPT !.type = "LinkSpan", !.text = text, !.attrs = attrs, !.tag = tag,
                    !.link = link,
                    !.visible = IF Len(words) = 1 THEN link ELSE join(<<" ">>, Tail(words))]

span_link_tags == {<<"http">>, <<"https">>, <<"link">>, <<"mailto">>}

\* dict(attrs_list): one pair per key, in order of first insertion, the last value.
RECURSIVE dict(_)
dict(pairs) ==
  IF pairs = <<>> THEN <<>>
  ELSE LET d == dict(SubSeq(pairs, 1, Len(pairs) - 1))
           kv == pairs[Len(pairs)]
           at == {i \in 1..Len(d) : d[i][1] = kv[1]}
       IN IF at = {} THEN Append(d, kv) ELSE [d EXCEPT ![Min(at)] = kv]

\* attrs.get(key), with <<>> for None.
attrs_get(attrs, key) ==
  LET at == {i \in 1..Len(attrs) : attrs[i][1] = key}
  IN IF at = {} THEN <<>> ELSE attrs[Min(at)][2]

\* sym_re.fullmatch(key): '[-_\w]+', no symbol of key being one of those that
\* hold a character outside the class.
sym_re(key) ==
  /\ key # <<>>
  /\ \A i \in 1..Len(key) :
       key[i] \notin {" ", "\t", "\n", "<", ">", ":", ";", "=", "#", "*", "|", "/", ".", "\"",
                      "'", "&", "©", BACKSLASH, BACKTICK} \cup ExtSymbols

(***************************************************************************)
(* Embed.                                                                  *)
(*                                                                         *)
(* A value that a later step reads more than once is passed on as the      *)
(* parameter of the operator that models that step: the steps of one       *)
(* function of the source are a chain of operators, named after it.        *)
(***************************************************************************)
RECURSIVE parse(_, _)
RECURSIVE Ctx_emit_html(_, _, _)

\* Ctx.__init__ up to the call of parse(self).  enum_next is the counter of
\* enumerate() in parse, prev_state its local; heap holds every Block created by
\* this Ctx (a Block is named by its index in heap), closed the Blocks in the
\* order their finish() was called.
Ctx_fields(path, should_embed, is_versioned, warn_missing_final_newline, quote_depth, line_offset, world) ==
  [src_path |-> path, should_embed |-> should_embed, is_versioned |-> is_versioned,
   warn_missing_final_newline |-> warn_missing_final_newline,
   quote_depth |-> quote_depth, line_offset |-> line_offset,
   search_dir |-> IF path_dir(path) = <<>> THEN <<".">> ELSE path_dir(path),
   license_lines |-> <<>>, stack |-> <<>>, blocks |-> <<>>, dependencies |-> <<>>,
   section_ids |-> <<>>, paging_ids |-> <<>>, line |-> <<>>, line_num |-> 0,
   enum_next |-> 0, prev_state |-> s_start, heap |-> <<>>, closed |-> <<>>,
   world |-> world]

embed_dispatch_exts ==
  {<<e>> : e \in {".css", ".csv", ".wu", ".bash", ".js", ".py", ".sh", ".sql", ".swift",
                   ".txt", ".svg", ".htm", ".html", ".gif", ".jpeg", ".jpg", ".png"}}

\* Every handler returns [world, contents].
embed_code(c, f) ==
  [world |-> c.world,
   contents |-> << <<"<div class=code-block>">> >>
                \o [i \in 1..Len(f.lines) |->
                      <<"<code class=line>">> \o html_esc(f.lines[i]) \o <<"</code>">>]
                \o << <<"</div>">> >>]

embed_css(c, f) ==
  [world |-> c.world,
   contents |-> << <<"<style type=text/css>">> \o html_esc(Flatten(f.lines))
                   \o <<"</style>">> >>]

embed_img(c, f) ==
  [world |-> c.world, contents |-> << <<"<img src=">> \o html_esc(f.name) \o <<">">> >>]

\* embed_wu: list(embed_ctx.emit_html(depth=0)), r being what emit_html gives.
embed_wu_contents(r) == [world |-> r.ctx.world, contents |-> r.html]

\* embed_wu once the child Ctx is constructed, that is, has parsed the file.
embed_wu_emit(embed_ctx) ==
  IF Exited(embed_ctx) THEN [world |-> embed_ctx.world, contents |-> <<>>]
  ELSE embed_wu_contents(Ctx_emit_html(embed_ctx, 0, <<>>))

embed_wu(c, f) ==
  embed_wu_emit(parse(Ctx_fields(f.name, c.should_embed, TRUE, TRUE, c.quote_depth, 0,
                                 c.world), f.lines))

\* embed_dispatch[ext](ctx, f).  The handlers of .csv, .svg, .htm and .html read
\* files the model's file system does not hold; their output is one opaque line.
embed_dispatch(ext, c, f) ==
  CASE ext = <<".wu">> -> embed_wu(c, f)
    [] ext = <<".css">> -> embed_css(c, f)
    [] ext \in {<<".bash">>, <<".js">>, <<".py">>, <<".sh">>, <<".sql">>, <<".swift">>,
                <<".txt">>} -> embed_code(c, f)
    [] ext \in {<<".gif">>, <<".jpeg">>, <<".jpg">>, <<".png">>} -> embed_img(c, f)
    [] OTHER -> [world |-> c.world, contents |-> << <<"<embedded ">> \o ext \o <<">">> >>]

\* The resolved path of an embed: joined to the source directory, leading ./ stripped.
embed_path(search_dir, text) ==
  LET path == path_join(search_dir, text)
  IN IF Len(path) >= 2 /\ path[1] = "." /\ path[2] = "/" THEN From(path, 3) ELSE path

\* embed_reads_file, were should_embed not consulted.
embed_reads_file_always(c) == TRUE

\* Whether embed() goes on to open the file and run its handler.
embed_reads_file(c) == c.should_embed

\* ext = attrs.get('ext') or split_ext(path)[1]
embed_ext(attrs, path) ==
  IF attrs_get(attrs, <<"ext">>) # <<>> THEN attrs_get(attrs, <<"ext">>)
  ELSE split_ext_ext(path)

\* embed: the EmbedSpan, r being what the handler returned.
embed_span(c, text, attrs, path, r) ==
  [ctx |-> [c EXCEPT !.world = r.world], span |-> EmbedSpan(text, attrs, path, r.contents)]

\* embed: the file is open, its handler is looked up and run.
embed_opened(c, text, attrs, path, ext) ==
  IF ext \notin embed_dispatch_exts
  THEN [ctx |-> Ctx_error(c, "embedded file has unknown extension type"), span |-> NoSpan]
  ELSE embed_span(c, text, attrs, path, embed_dispatch(ext, c, open(path)))

\* embed: the path is registered, the file is opened if the Ctx embeds.
embed_registered(c, text, attrs, path) ==
  IF Exited(c) THEN [ctx |-> c, span |-> NoSpan]
  ELSE IF ~embed_reads_file(c)
    THEN [ctx |-> c, span |-> EmbedSpan(text, attrs, path, <<>>)]
  ELSE IF ~path_exists(path)
    THEN [ctx |-> Ctx_error(c, "embedded file not found"), span |-> NoSpan]
  ELSE embed_opened([c EXCEPT !.world.opened = Append(@, path)], text, attrs, path,
                    embed_ext(attrs, path))

\* embed(ctx, text, attrs): [ctx, span].
embed(c, text, attrs) ==
  embed_registered(Ctx_add_dependency(c, embed_path(c.search_dir, text)), text, attrs,
                   embed_path(c.search_dir, text))

(***************************************************************************)
(* Inline span converter.                                                  *)
(***************************************************************************)
\* One iteration of the loop of span_angle_conv over post_tag_text.split(' ').
\* st = [ctx, in_body, attrs_list, body_words]; i is the 0-based index of word.
angle_word(st, tag, i, word) ==
  IF Exited(st.ctx) THEN st
  ELSE IF st.in_body \/ (i = 0 /\ tag \in span_link_tags)
    THEN [st EXCEPT !.body_words = Append(@, word)]
  ELSE IF word = <<>> THEN st
  ELSE IF word = <<";">> THEN [st EXCEPT !.in_body = TRUE]
  ELSE LET p == partition(word, "=")
           key == p[1]
           ends == endswith(p[3], ";")
           val == IF ends THEN SubSeq(p[3], 1, Len(p[3]) - 1) ELSE p[3]
       IN IF p[2] = <<>> THEN [st EXCEPT !.body_words = Append(@, word)]
          ELSE IF ~sym_re(key)
            THEN [st EXCEPT !.in_body = @ \/ ends,
                            !.ctx = Ctx_error(@, "span attribute name is invalid")]
          ELSE IF val = <<>>
            THEN [st EXCEPT !.in_body = @ \/ ends,
                            !.ctx = Ctx_error(@, "span attribute value is empty")]
          ELSE IF val[1] \in {"\"", "'"} /\ (Len(val) < 2 \/ val[1] # val[Len(val)])
            THEN [st EXCEPT !.in_body = @ \/ ends,
                            !.ctx = Ctx_error(@, "span attribute value has mismatched quotes")]
          ELSE [st EXCEPT !.in_body = @ \/ ends, !.attrs_list = Append(@, <<key, val>>)]

RECURSIVE angle_words(_, _, _, _)
angle_words(st, tag, words, i) ==
  IF i >= Len(words) THEN st
  ELSE angle_words(angle_word(st, tag, i, words[i + 1]), tag, words, i + 1)

\* span_tags, were one more tag taken as a link scheme.
span_tags_and_foo == {<<"b">>, <<"embed">>, <<"span">>, <<"foo">>} \cup span_link_tags

\* The recognized tags.
span_tags == {<<"b">>, <<"embed">>, <<"span">>} \cup span_link_tags

\* The dispatch on the tag at the end of span_angle_conv: [ctx, span].
span_for_tag(c, tag, body_text, attrs, body_words) ==
  IF tag \notin span_tags THEN [ctx |-> Ctx_error(c, "span has invalid tag"), span |-> NoSpan]
  ELSE IF tag = <<"b">> THEN [ctx |-> c, span |-> BoldSpan(body_text, attrs)]
  ELSE IF tag = <<"embed">> THEN embed(c, body_text, attrs)
  ELSE IF tag = <<"span">> THEN [ctx |-> c, span |-> GenericSpan(body_text, attrs)]
  ELSE [ctx |-> IF tag = <<"link">>
                THEN Ctx_add_dependency(c, LinkSpan(body_text, attrs, tag, body_words).link)
                ELSE c,
        span |-> LinkSpan(body_text, attrs, tag, body_words)]

\* span_angle_conv after its loop over the words, st being the loop's result.
span_angle_body(st, tag) ==
  IF Exited(st.ctx) THEN [ctx |-> st.ctx, span |-> NoSpan]
  ELSE IF st.body_words = <<>>
    THEN [ctx |-> Ctx_error(st.ctx, "span has no body"), span |-> NoSpan]
  ELSE span_for_tag(st.ctx, tag, join(<<" ">>, st.body_words), dict(st.attrs_list),
                    st.body_words)

\* span_angle_conv(ctx, text): [ctx, span].  text.partition(':') gives '' and
\* never None for a missing colon, so the test `colon is None` never holds.
span_angle_conv(c, text) ==
  span_angle_body(angle_words([ctx |-> c, in_body |-> FALSE, attrs_list |-> <<>>,
                               body_words |-> <<>>],
                              partition(text, ":")[1],
                              split(partition(text, ":")[3], " "), 0),
                  partition(text, ":")[1])

span_code_conv(c, text) == [ctx |-> c, span |-> CodeSpan(text)]

\* span_fns[i](ctx, group_text)
span_fns(i, c, group_text) ==
  IF i = 1 THEN span_code_conv(c, group_text) ELSE span_angle_conv(c, group_text)

\* flush, were the run before a match appended even when it is empty.
flush_any(spans, text, prev_idx, curr_idx) ==
  Append(spans, Span(SubSeq(text, prev_idx + 1, curr_idx)))

\* flush(curr_idx) of parse_spans, with prev_idx the (0-based) end of the last match.
flush(spans, text, prev_idx, curr_idx) ==
  IF prev_idx < curr_idx THEN Append(spans, Span(SubSeq(text, prev_idx + 1, curr_idx)))
  ELSE spans

RECURSIVE parse_spans_from(_, _, _, _)

\* parse_spans: the span of one match is appended, r being what span_fn returned.
parse_spans_append(r, text, end, spans) ==
  parse_spans_from(r.ctx, text, end, Append(spans, r.span))

\* parse_spans: one match of span_re.finditer(text), starting at start.
parse_spans_match(c, text, prev_idx, spans, start) ==
  parse_spans_append(span_fns(span_re_at(text, start).lastindex, c,
                              SubSeq(text, start + 1, span_re_at(text, start).end - 1)),
                     text, span_re_at(text, start).end,
                     flush(spans, text, prev_idx, start - 1))

\* The loop of parse_spans over span_re.finditer(text): [ctx, spans].
parse_spans_from(c, text, prev_idx, spans) ==
  IF Exited(c) THEN [ctx |-> c, spans |-> spans]
  ELSE IF span_re_search(text, prev_idx + 1) = 0
    THEN [ctx |-> c, spans |-> flush(spans, text, prev_idx, Len(text))]
  ELSE parse_spans_match(c, text, prev_idx, spans, span_re_search(text, prev_idx + 1))

parse_spans(c, text) == parse_spans_from(c, text, 0, <<>>)

(***************************************************************************)
(* Blocks.  Every Block is a record of the same shape; the fields a class  *)
(* does not have keep their default.  finished counts the calls of         *)
(* finish() on the Block.                                                  *)
(***************************************************************************)
NoBlock ==
  [type |-> "None", section_depth |-> 0, quote_depth |-> 0, index_path |-> <<>>,
   title |-> <<>>, list_level |-> 0, blocks |-> <<>>, items |-> <<>>, text_lines |-> <<>>,
   quote_line_offset |-> -1, lines |-> <<>>, quote_ctx |-> <<>>, finished |-> 0]

Section(section_depth, quote_depth, index_path, title) ==
  [NoBlock EXCEPT !.type = "Section", !.section_depth = section_depth,
                  !.quote_depth = quote_depth, !.index_path = index_path, !.title = title]

UList(list_level) == [NoBlock EXCEPT !.type = "UList", !.list_level = list_level]

ListItem(list_level) == [NoBlock EXCEPT !.type = "ListItem", !.list_level = list_level]

Quote == [NoBlock EXCEPT !.type = "Quote"]

Code == [NoBlock EXCEPT !.type = "Code"]

Text == [NoBlock EXCEPT !.type = "Text"]

LeafBlock == {"Quote", "Code", "Text"}

\* The classes whose instances have a list `blocks`.
HasBlocks == {"Section", "ListItem", "Quote"}

\* Quote_ctx, were the sections of a quote numbered on from the enclosing Ctx: the
\* child starts below an open Section that stands for the Blocks of its parent.
Quote_ctx_continuing(c, q) ==
  [Ctx_fields(c.src_path, c.should_embed, FALSE, FALSE, c.quote_depth + 1,
              q.quote_line_offset, c.world)
     EXCEPT !.heap = << Section(1, c.quote_depth + 1, <<Len(c.heap)>>, <<>>) >>,
            !.stack = <<1>>, !.blocks = <<1>>]

\* Quote_ctx, were the child Ctx to warn of a missing final newline.
Quote_ctx_warning(c, q) ==
  Ctx_fields(c.src_path, c.should_embed, FALSE, TRUE, c.quote_depth + 1,
             q.quote_line_offset, c.world)

\* The Ctx a Quote constructs for its captured lines, before it parses them.
Quote_ctx(c, q) ==
  Ctx_fields(c.src_path, c.should_embed, FALSE, FALSE, c.quote_depth + 1,
             q.quote_line_offset, c.world)

\* Quote_blocks, were the dependencies of the child Ctx handed to its parent.
Quote_blocks_merging(c, id, quote_ctx) ==
  IF Exited(quote_ctx) THEN [c EXCEPT !.world = quote_ctx.world]
  ELSE [c EXCEPT !.world = quote_ctx.world,
                 !.heap[id].blocks = quote_ctx.blocks,
                 !.heap[id].quote_ctx = quote_ctx,
                 !.dependencies = @ \o quote_ctx.dependencies]

\* Quote.finish: self.blocks = quote_ctx.blocks, quote_ctx having parsed the lines.
Quote_blocks(c, id, quote_ctx) ==
  IF Exited(quote_ctx) THEN [c EXCEPT !.world = quote_ctx.world]
  ELSE [c EXCEPT !.world = quote_ctx.world,
                 !.heap[id].blocks = quote_ctx.blocks,
                 !.heap[id].quote_ctx = quote_ctx]

\* Quote.finish: the captured lines are parsed by a child Ctx.
Quote_finish(c, id) ==
  IF c.heap[id].quote_line_offset < 0 THEN Raise(c, "AssertionError")
  ELSE Quote_blocks(c, id, parse(Quote_ctx(c, c.heap[id]), c.heap[id].text_lines))

RECURSIVE Text_finish_from(_, _, _)

\* Text.finish: the spans of line i are appended, r being what parse_spans returned.
Text_finish_line(r, id, i) ==
  IF Exited(r.ctx) THEN r.ctx
  ELSE Text_finish_from([r.ctx EXCEPT !.heap[id].lines = Append(@, r.spans)], id, i + 1)

\* Text.finish: every line is span-converted.
Text_finish_from(c, id, i) ==
  IF Exited(c) \/ i > Len(c.heap[id].text_lines) THEN c
  ELSE Text_finish_line(parse_spans(c, c.heap[id].text_lines[i]), id, i)

Text_finish(c, id) == Text_finish_from(c, id, 1)

\* Block_finish, were the lines of a Code block span-converted like a paragraph's.
Block_finish_code_spans(c, id) ==
  IF Exited(c) THEN c
  ELSE IF c.heap[id].type = "Quote" THEN Quote_finish(c, id)
  ELSE IF c.heap[id].type \in {"Text", "Code"} THEN Text_finish(c, id)
  ELSE c

\* block.finish(ctx)
Block_finish(c, id) ==
  IF Exited(c) THEN c
  ELSE IF c.heap[id].type = "Quote" THEN Quote_finish(c, id)
  ELSE IF c.heap[id].type = "Text" THEN Text_finish(c, id)
  ELSE c

(***************************************************************************)
(* Ctx: the parser context.                                                *)
(***************************************************************************)
Ctx_depth(c) == Len(c.stack)

Ctx_top(c) == c.stack[Len(c.stack)]

TopType(c) == IF c.stack = <<>> THEN "None" ELSE c.heap[Ctx_top(c)].type

Ctx_list_level(c) ==
  LET at == {i \in 1..Len(c.stack) : c.heap[c.stack[i]].type \in {"UList", "ListItem"}}
  IN IF at = {} THEN 0 ELSE c.heap[c.stack[Max(at)]].list_level

\* The container a pushed Block is appended to: the top of the stack, else the Ctx.
Ctx_push(c, block) ==
  IF Exited(c) THEN c
  ELSE IF c.stack = <<>>
    THEN [c EXCEPT !.heap = Append(@, block), !.stack = Append(@, Len(c.heap) + 1),
                   !.blocks = Append(@, Len(c.heap) + 1)]
  ELSE IF TopType(c) \notin HasBlocks THEN Raise(c, "AttributeError")
  ELSE [c EXCEPT !.heap = Append(@, block), !.stack = Append(@, Len(c.heap) + 1),
                 !.heap[Ctx_top(c)].blocks = Append(@, Len(c.heap) + 1)]

\* Ctx_pop, were the Block popped without a call of its finish.
Ctx_pop_unfinished(c) ==
  IF Exited(c) THEN c
  ELSE [c EXCEPT !.stack = SubSeq(@, 1, Len(@) - 1),
                 !.closed = Append(@, Ctx_top(c)),
                 !.heap[Ctx_top(c)].finished = @ + 1]

\* Ctx.pop; the Block it returns is the top of the stack before the call.
Ctx_pop(c) ==
  IF Exited(c) THEN c
  ELSE Block_finish([c EXCEPT !.stack = SubSeq(@, 1, Len(@) - 1),
                              !.closed = Append(@, Ctx_top(c)),
                              !.heap[Ctx_top(c)].finished = @ + 1],
                    Ctx_top(c))

RECURSIVE pop_to_section_depth_from(_, _, _)

\* pop_to_section_depth: prev_index = prev.index_path[section_depth], prev being
\* the Block just popped.
pop_to_section_depth_prev(c, section_depth, prev, prev_index) ==
  IF prev.type # "Section"
    THEN [ctx |-> Raise(c, "AttributeError"), prev_index |-> prev_index]
  ELSE IF section_depth + 1 > Len(prev.index_path)
    THEN [ctx |-> Raise(c, "IndexError"), prev_index |-> prev_index]
  ELSE pop_to_section_depth_from(c, section_depth, prev.index_path[section_depth + 1])

\* Ctx.pop_to_section_depth: [ctx, prev_index].
pop_to_section_depth_from(c, section_depth, prev_index) ==
  IF Exited(c) \/ ~(Ctx_depth(c) > section_depth) THEN [ctx |-> c, prev_index |-> prev_index]
  ELSE pop_to_section_depth_prev(Ctx_pop(c), section_depth, c.heap[Ctx_top(c)], prev_index)

pop_to_section_depth(c, section_depth) == pop_to_section_depth_from(c, section_depth, 0)

\* pop_to_list, were a UList of the level asked for closed too.
RECURSIVE pop_to_list_closing(_, _)
pop_to_list_closing(c, list_level) ==
  IF Exited(c) \/ c.stack = <<>> THEN c
  ELSE IF \/ TopType(c) = "Section"
          \/ TopType(c) = "UList" /\ c.heap[Ctx_top(c)].list_level < list_level
          \/ TopType(c) = "ListItem" /\ c.heap[Ctx_top(c)].list_level < list_level
    THEN c
  ELSE pop_to_list_closing(Ctx_pop(c), list_level)

\* pop_to_list, were a list item left open whatever the level asked for.
RECURSIVE pop_to_list_keeps_items(_, _)
pop_to_list_keeps_items(c, list_level) ==
  IF Exited(c) \/ c.stack = <<>> THEN c
  ELSE IF \/ TopType(c) \in {"Section", "ListItem"}
          \/ TopType(c) = "UList" /\ c.heap[Ctx_top(c)].list_level <= list_level
    THEN c
  ELSE pop_to_list_keeps_items(Ctx_pop(c), list_level)

\* pop_to_list, were a ListItem of the level of the list kept open.
RECURSIVE pop_to_list_item_le(_, _)
pop_to_list_item_le(c, list_level) ==
  IF Exited(c) \/ c.stack = <<>> THEN c
  ELSE IF \/ TopType(c) = "Section"
          \/ TopType(c) = "UList" /\ c.heap[Ctx_top(c)].list_level <= list_level
          \/ TopType(c) = "ListItem" /\ c.heap[Ctx_top(c)].list_level <= list_level
    THEN c
  ELSE pop_to_list_item_le(Ctx_pop(c), list_level)

RECURSIVE pop_to_list(_, _)
pop_to_list(c, list_level) ==
  IF Exited(c) \/ c.stack = <<>> THEN c
  ELSE IF \/ TopType(c) = "Section"
          \/ TopType(c) = "UList" /\ c.heap[Ctx_top(c)].list_level <= list_level
          \/ TopType(c) = "ListItem" /\ c.heap[Ctx_top(c)].list_level < list_level
    THEN c
  ELSE pop_to_list(Ctx_pop(c), list_level)

\* append_to_leaf_block_pops, were a leaf block of the class of the line kept open
\* whatever its list level.
RECURSIVE append_to_leaf_block_pops_kind(_, _, _)
append_to_leaf_block_pops_kind(c, list_level, block_type) ==
  IF Exited(c) \/ c.stack = <<>> THEN c
  ELSE IF \/ TopType(c) = "Section"
          \/ TopType(c) = "ListItem" /\ c.heap[Ctx_top(c)].list_level <= list_level
          \/ TopType(c) = block_type.type
    THEN c
  ELSE append_to_leaf_block_pops_kind(Ctx_pop(c), list_level, block_type)

\* The while loop of append_to_leaf_block.
RECURSIVE append_to_leaf_block_pops(_, _, _)
append_to_leaf_block_pops(c, list_level, block_type) ==
  IF Exited(c) \/ c.stack = <<>> THEN c
  ELSE IF \/ TopType(c) = "Section"
          \/ TopType(c) = "ListItem" /\ c.heap[Ctx_top(c)].list_level <= list_level
          \/ TopType(c) = block_type.type /\ Ctx_list_level(c) = list_level
    THEN c
  ELSE append_to_leaf_block_pops(Ctx_pop(c), list_level, block_type)

\* append_to_leaf_block: the leaf is the top of the stack, or a new Block.
append_to_leaf_block_leaf(c, block_type) ==
  IF c.stack # <<>> /\ TopType(c) = block_type.type THEN c ELSE Ctx_push(c, block_type)

\* append_to_leaf_block: leaf.text_lines.append(line)
append_to_leaf_block_line(c, line) ==
  IF Exited(c) THEN c ELSE [c EXCEPT !.heap[Ctx_top(c)].text_lines = Append(@, line)]

append_to_leaf_block(c, list_level, block_type, line) ==
  append_to_leaf_block_line(
    append_to_leaf_block_leaf(append_to_leaf_block_pops(c, list_level, block_type),
                              block_type),
    line)

\* close_leaf_block: the assertion after the pop.
close_leaf_block_popped(c) ==
  IF Exited(c) \/ c.stack = <<>> \/ TopType(c) \in {"Section", "ListItem"} THEN c
  ELSE Raise(c, "AssertionError")

\* close_leaf_block, were the top of the stack popped whatever its class.
close_leaf_block_any(c) == IF ~Exited(c) /\ c.stack # <<>> THEN Ctx_pop(c) ELSE c

close_leaf_block(c) ==
  IF ~Exited(c) /\ c.stack # <<>> /\ TopType(c) \in LeafBlock
  THEN close_leaf_block_popped(Ctx_pop(c))
  ELSE c

(***************************************************************************)
(* Block tree builder: writeup_line.                                       *)
(***************************************************************************)
\* check_whitespace; its boolean result is not used by any caller.
check_whitespace(c, len_exp, string, msg_suffix) ==
  IF \E i \in 1..Len(string) : string[i] # " "
    THEN Ctx_warn(c, "invalid whitespace character" \o msg_suffix)
  ELSE IF len_exp >= 0 /\ Len(string) # len_exp
    THEN Ctx_warn(c, "expected exactly len_exp spaces" \o msg_suffix)
  ELSE c

\* intro_index_path, were the intro section indexed like every other section.
intro_index_path_one == <<1>>

\* The index path of the first section pushed on an empty stack.
intro_index_path == <<0>>

\* next_index_path, were every section numbered as the first under its parent.
next_index_path_first(parent_path, prev_index) == parent_path \o <<1>>

\* The index path of a section after its previous sibling (0 when there is none).
next_index_path(parent_path, prev_index) == parent_path \o <<prev_index + 1>>

\* Whether a header of section_depth hashes has no parent section to open under.
missing_parent_section(c, section_depth) == section_depth > Ctx_depth(c) + 1

\* s_section: a header with section_indents is an error.
writeup_line_section_indents(c, m) ==
  IF m.section_indents # <<>> THEN Ctx_error(c, "section header cannot be indented.")
  ELSE c

\* s_section, the normal case: the index path after the pops, r being what
\* pop_to_section_depth returned.
section_index_path_normal(r) ==
  IF Exited(r.ctx) THEN [ctx |-> r.ctx, index_path |-> <<>>]
  ELSE [ctx |-> r.ctx,
        index_path |-> next_index_path(IF r.ctx.stack # <<>>
                                       THEN r.ctx.heap[Ctx_top(r.ctx)].index_path
                                       ELSE <<>>,
                                       r.prev_index)]

\* s_section: the three cases that give index_path; [ctx, index_path].
section_index_path(c, section_depth) ==
  IF Exited(c) THEN [ctx |-> c, index_path |-> <<>>]
  ELSE IF c.stack = <<>> THEN [ctx |-> c, index_path |-> intro_index_path]
  ELSE IF missing_parent_section(c, section_depth)
    THEN [ctx |-> Ctx_error(c, "missing parent section"), index_path |-> <<>>]
  ELSE section_index_path_normal(pop_to_section_depth(c, section_depth - 1))

\* s_section: the Section is pushed, t being what parse_spans returned for the title.
writeup_line_section_push(t, section_depth, index_path) ==
  IF Exited(t.ctx) THEN t.ctx
  ELSE Ctx_push(t.ctx, Section(section_depth, t.ctx.quote_depth, index_path, t.spans))

\* s_section: the title is parsed, r being [ctx, index_path].
writeup_line_section_title(r, m) ==
  IF Exited(r.ctx) THEN r.ctx
  ELSE writeup_line_section_push(parse_spans(r.ctx, m.section_title),
                                 Len(m.section_hashes), r.index_path)

\* writeup_line for a section header (state == s_section).
writeup_line_section(c, m) ==
  writeup_line_section_title(
    section_index_path(
      check_whitespace(writeup_line_section_indents(pop_to_list(c, 0), m), 1,
                       m.section_spaces, " following #"),
      Len(m.section_hashes)),
    m)

\* missing_parent_list, were the indent never checked against the open lists.
missing_parent_list_never(c, list_level) == FALSE

\* Whether an indent of list_level has no open list to belong to.
missing_parent_list(c, list_level) == Ctx_list_level(c) < list_level

\* writeup_line_indents, were an odd indent a warning.
writeup_line_indents_warns(c, l) ==
  IF Exited(c) THEN c
  ELSE IF Ctx_list_level(IF l % 2 # 0 THEN Ctx_warn(c, "odd indentation length") ELSE c)
          < l \div 2
    THEN Ctx_error(IF l % 2 # 0 THEN Ctx_warn(c, "odd indentation length") ELSE c,
                   "indent implies missing parent list")
  ELSE IF l % 2 # 0 THEN Ctx_warn(c, "odd indentation length") ELSE c

\* The two checks of the indent, l being its length.
writeup_line_indents(c, l) ==
  IF Exited(c) THEN c
  ELSE IF l % 2 # 0 THEN Ctx_error(c, "odd indentation length")
  ELSE IF missing_parent_list(c, l \div 2)
    THEN Ctx_error(c, "indent implies missing parent list")
  ELSE c

\* m['list_star']: the UList of the item is opened or is the top of the stack.
writeup_line_star_ulist(c, goal_level) ==
  IF Exited(c) THEN c
  ELSE IF Ctx_list_level(c) < goal_level
    THEN IF Ctx_list_level(c) + 1 # goal_level THEN Raise(c, "AssertionError")
         ELSE Ctx_push(c, UList(goal_level))
  ELSE IF TopType(c) # "UList" THEN Raise(c, "AssertionError")
  ELSE c

\* m['list_star']: the ListItem is appended to the items of the UList and to the stack.
writeup_line_star_item(c, goal_level) ==
  IF Exited(c) THEN c
  ELSE [c EXCEPT !.heap = Append(@, ListItem(goal_level)),
                 !.heap[Ctx_top(c)].items = Append(@, Len(c.heap) + 1),
                 !.stack = Append(@, Len(c.heap) + 1)]

\* writeup_line for a list item (m['list_star']); list_level becomes list_level + 1.
writeup_line_star(c, m, list_level) ==
  writeup_line_star_item(
    writeup_line_star_ulist(
      pop_to_list(check_whitespace(c, 1, m.list_spaces, " following *"), list_level + 1),
      list_level + 1),
    list_level + 1)

\* The class and the line handed to append_to_leaf_block in each state.
leaf_block_type(state) ==
  IF state = s_code THEN Code ELSE IF state = s_quote THEN Quote ELSE Text

leaf_line(state, m) ==
  IF state = s_code THEN m.code ELSE IF state = s_quote THEN m.quote ELSE m.text

\* writeup_line_quote_offset, were the lines of a quote numbered from its own start.
writeup_line_quote_offset_zero(c, state) ==
  IF ~Exited(c) /\ state = s_quote /\ Len(c.heap[Ctx_top(c)].text_lines) = 1
  THEN [c EXCEPT !.heap[Ctx_top(c)].quote_line_offset = 0]
  ELSE c

\* s_quote: the first line of a Quote records its line number.
writeup_line_quote_offset(c, state) ==
  IF ~Exited(c) /\ state = s_quote /\ Len(c.heap[Ctx_top(c)].text_lines) = 1
  THEN [c EXCEPT !.heap[Ctx_top(c)].quote_line_offset = c.line_num]
  ELSE c

\* writeup_line for the leaf content or the blank of a line.
writeup_line_leaf(c, state, m, list_level) ==
  IF Exited(c) THEN c
  ELSE IF state \in {s_code, s_quote, s_text}
    THEN writeup_line_quote_offset(
           append_to_leaf_block(c, list_level, leaf_block_type(state), leaf_line(state, m)),
           state)
  ELSE IF state = s_blank
    THEN close_leaf_block(IF Len(m.indents) # 0 THEN Ctx_warn(c, "blank line is not empty.")
                          ELSE c)
  ELSE Ctx_error(c, "bad state")

\* writeup_line after the checks of the indent.
writeup_line_content(c, state, m, list_level) ==
  writeup_line_leaf(IF ~Exited(c) /\ m.list_star # <<>>
                    THEN writeup_line_star(c, m, list_level)
                    ELSE c,
                    state, m,
                    IF m.list_star # <<>> THEN list_level + 1 ELSE list_level)

writeup_line(c, state, m) ==
  IF Exited(c) THEN c
  ELSE IF state = s_section THEN writeup_line_section(c, m)
  ELSE writeup_line_content(
         writeup_line_indents(check_whitespace(c, -1, m.indents, " in indent"),
                              Len(m.indents)),
         state, m, Len(m.indents) \div 2)

(***************************************************************************)
(* parse.                                                                  *)
(***************************************************************************)
\* parse_version, were the first line taken as the version line unchecked.
parse_version_unchecked(c, version_line) == [c EXCEPT !.line_offset = @ + 1]

\* parse: the version line.  version_line is <<>> when the input has no line.
parse_version(c, version_line) ==
  IF version_re(version_line) = <<>>
    THEN sys_exit(c, "first line must specify writeup version")
  ELSE IF int(version_re(version_line)) # 0 THEN sys_exit(c, "unsupported version number")
  ELSE [c EXCEPT !.line_offset = @ + 1]

\* parse: what precedes the loop over the lines.
parse_start(c) ==
  IF Exited(c) THEN c
  ELSE [c EXCEPT !.prev_state = s_start, !.line_num = c.line_offset,
                 !.enum_next = c.line_offset]

\* is_license_line, were every line of the notice to begin with a marker.
is_license_line_marked(prev_state, line) ==
  prev_state \in {s_start, s_license} /\ license_re(line)

\* Whether a line is taken as a license line, given prev_state.
is_license_line(prev_state, line) ==
  \/ prev_state = s_start /\ license_re(line)
  \/ prev_state = s_license /\ str_strip(line) # <<>>

\* parse_line_state, were a blank line to bring the parse back to its start state.
parse_line_state_blank_restarts(c, state) ==
  IF Exited(c) THEN c ELSE [c EXCEPT !.prev_state = IF state = s_blank THEN s_start ELSE state]

\* parse, loop body: prev_state = state after writeup_line.
parse_line_state(c, state) == IF Exited(c) THEN c ELSE [c EXCEPT !.prev_state = state]

\* parse, loop body: a normal line, m being line_re.fullmatch(line).
parse_line_normal(c, m) ==
  parse_line_state(writeup_line(c, line_groups_to_states(m.lastgroup), m),
                   line_groups_to_states(m.lastgroup))

\* parse, loop body: a license line is kept for the footer, any other is processed.
parse_line_license(c, line) ==
  IF is_license_line(c.prev_state, line)
  THEN [c EXCEPT !.license_lines =
                    Append(@, IF c.prev_state = s_start THEN str_strip(line) ELSE line),
                 !.prev_state = s_license]
  ELSE parse_line_normal(c, line_re(line))

\* parse: one iteration of the loop over the lines.
parse_line(c, raw_line) ==
  IF Exited(c) THEN c
  ELSE parse_line_license(
         IF c.warn_missing_final_newline /\ ~endswith(raw_line, "\n")
         THEN Ctx_warn([c EXCEPT !.line = rstrip_nl(raw_line), !.line_num = c.enum_next,
                                 !.enum_next = @ + 1],
                       "missing final newline.")
         ELSE [c EXCEPT !.line = rstrip_nl(raw_line), !.line_num = c.enum_next,
                        !.enum_next = @ + 1],
         rstrip_nl(raw_line))

\* parse_finish, were the stack left as it is at the end of the lines.
parse_finish_undrained(c) == c

\* parse: the final loop that empties the stack.
RECURSIVE parse_finish(_)
parse_finish(c) ==
  IF Exited(c) \/ c.stack = <<>> THEN c ELSE parse_finish(Ctx_pop(c))

RECURSIVE parse_lines(_, _, _)
parse_lines(c, src_lines, i) ==
  IF Exited(c) \/ i > Len(src_lines) THEN c
  ELSE parse_lines(parse_line(c, src_lines[i]), src_lines, i + 1)

\* parse returns: the Document is complete.
parse_return(c) ==
  IF Exited(c) THEN c
  ELSE [c EXCEPT !.world.documents = Append(@, [c EXCEPT !.world = NewWorld])]

\* parse(ctx) of a Ctx whose src_lines are all known: a child Ctx.
parse(c, src_lines) ==
  parse_return(
    parse_finish(parse_lines(parse_start(IF c.is_versioned
                                         THEN parse_version(c, IF src_lines = <<>> THEN <<>>
                                                               ELSE src_lines[1])
                                         ELSE c),
                             IF c.is_versioned /\ src_lines # <<>> THEN Tail(src_lines)
                             ELSE src_lines,
                             1)))

(***************************************************************************)
(* Renderer.  Every html method returns [ctx, html]: the rendering Ctx     *)
(* (Section.html appends to its section_ids and paging_ids) and the lines  *)
(* it yields.  heap is the heap the Block ids are read in: the heap of the *)
(* Ctx that parsed them.                                                   *)
(***************************************************************************)
\* span_code_esc_re.sub(strip the leading backslash, text)
RECURSIVE span_code_unescape(_)
span_code_unescape(text) ==
  IF text = <<>> THEN <<>>
  ELSE IF text[1] = BACKSLASH /\ Len(text) >= 2 /\ text[2] \in {BACKTICK, BACKSLASH}
    THEN <<text[2]>> \o span_code_unescape(From(text, 3))
  ELSE <<text[1]>> \o span_code_unescape(Tail(text))

attrs_bool(attrs, key) == attrs_get(attrs, key) \in {<<"true">>, <<"yes">>}

\* span.html(depth)
Span_html(span, depth) ==
  CASE span.type = "Span" -> html_esc(span.text)
    [] span.type = "CodeSpan" ->
         <<"<code class=inline>">>
         \o [i \in 1..Len(span_code_unescape(span.text)) |->
               IF span_code_unescape(span.text)[i] = " " THEN "&nbsp;"
               ELSE html_esc_sym(span_code_unescape(span.text)[i])]
         \o <<"</code>">>
    [] span.type = "BoldSpan" -> <<"<b>">> \o html_esc(span.text) \o <<"</b>">>
    [] span.type = "EmbedSpan" ->
         (IF attrs_bool(span.attrs, <<"titled">>)
          THEN <<"<div class=embed-label>">> \o html_esc(span.path) \o <<"</div>", "\n">>
          ELSE <<>>)
         \o join(<<"\n">> \o indent_of(depth + 1), span.contents)
    [] span.type = "GenericSpan" ->
         <<"<span ">>
         \o join(<<" ">>, [i \in 1..Len(span.attrs) |->
                             html_esc_attr(span.attrs[i][1]) \o <<"=">>
                             \o html_esc_attr(span.attrs[i][2])])
         \o <<">">> \o html_esc(span.text) \o <<"</span>">>
    [] span.type = "LinkSpan" ->
         <<"<a href=">> \o html_esc_attr(span.link) \o <<">">> \o html_esc(span.visible)
         \o <<"</a>">>

html_for_spans(spans, depth) ==
  str_strip(Flatten([i \in 1..Len(spans) |-> Span_html(spans[i], depth)]))

text_for_spans(spans) == str_strip(Flatten([i \in 1..Len(spans) |-> spans[i].text]))

\* Section.sid
Section_sid(block) ==
  join(<<".">>, [i \in 1..Len(block.index_path) |-> str(block.index_path[i])])

\* The first line Section.html yields: the open tag.
Section_open_tag(block, depth) ==
  indent(depth, <<"<section", " class=S">> \o str(block.section_depth) \o <<" id=">>
                \o (IF block.quote_depth # 0 THEN <<"q">> \o str(block.quote_depth) ELSE <<>>)
                \o <<"s">> \o Section_sid(block) \o <<">">>)

\* Section_close_tag, were the section closed by the tag of another element.
Section_close_tag_div(block, depth) == indent(depth, <<"</div>">>)

\* The last line Section.html yields: the close tag.
Section_close_tag(block, depth) == indent(depth, <<"</section>">>)

\* The lines of a Text block (Text.html between <p> and </p>; ListItem.html).
Text_lines_html(block, depth, wrap_depth) ==
  Flatten([i \in 1..Len(block.lines) |->
             (IF i > 1 THEN << indent(wrap_depth, <<"<br />">>) >> ELSE <<>>)
             \o << indent(wrap_depth + 1, html_for_spans(block.lines[i], wrap_depth)) >>])

RECURSIVE Block_html(_, _, _, _)
RECURSIVE Blocks_html(_, _, _, _)

\* The lines first, then those of r, then the lines last.
html_between(first, r, last) == [ctx |-> r.ctx, html |-> first \o r.html \o last]

\* for block in blocks: the blocks after the first, r being what the first gave.
Blocks_html_rest(r, heap, ids, depth) ==
  html_between(r.html, Blocks_html(r.ctx, heap, ids, depth), <<>>)

\* for block in blocks: yield from block.html(ctx, depth)
Blocks_html(c, heap, ids, depth) ==
  IF ids = <<>> THEN [ctx |-> c, html |-> <<>>]
  ELSE Blocks_html_rest(Block_html(c, heap, ids[1], depth), heap, Tail(ids), depth)

Section_html(c, heap, block, depth) ==
  html_between(
    << Section_open_tag(block, depth),
       indent(depth + 1,
              <<"<h">> \o str(Min({6, block.section_depth})) \o <<" id=h">>
              \o Section_sid(block) \o <<">">> \o html_for_spans(block.title, depth)
              \o <<"</h">> \o str(Min({6, block.section_depth})) \o <<">">>) >>,
    Blocks_html([c EXCEPT !.section_ids = Append(@, Section_sid(block)),
                          !.paging_ids = IF block.section_depth <= 2
                                         THEN Append(@, Section_sid(block)) ELSE @],
                heap, block.blocks, depth + 1),
    << Section_close_tag(block, depth) >>)

UList_html(c, heap, block, depth) ==
  html_between(<< indent(depth, <<"<ul class=L">> \o str(block.list_level) \o <<">">>) >>,
               Blocks_html(c, heap, block.items, depth + 1),
               << indent(depth, <<"</ul>">>) >>)

ListItem_html(c, heap, block, depth) ==
  IF Len(block.blocks) = 1 /\ heap[block.blocks[1]].type = "Text"
  THEN IF Len(heap[block.blocks[1]].lines) = 1
       THEN [ctx |-> c,
             html |-> << indent(depth, <<"<li>">>
                                       \o html_for_spans(heap[block.blocks[1]].lines[1], depth)
                                       \o <<"</li>">>) >>]
       ELSE [ctx |-> c,
             html |-> << indent(depth, <<"<li>">>) >>
                      \o Text_lines_html(heap[block.blocks[1]], depth, depth)
                      \o << indent(depth, <<"</li>">>) >>]
  ELSE html_between(<< indent(depth, <<"<li>">>) >>,
                    Blocks_html(c, heap, block.blocks, depth + 1),
                    << indent(depth, <<"</li>">>) >>)

\* Quote.html: the blocks are those of the child Ctx, read in its heap.
Quote_html(c, heap, block, depth) ==
  html_between(<< indent(depth, <<"<blockquote>">>) >>,
               Blocks_html(c, block.quote_ctx.heap, block.blocks, depth + 1),
               << indent(depth, <<"</blockquote>">>) >>)

Code_html(c, heap, block, depth) ==
  [ctx |-> c,
   html |-> << <<"<div class=code-block>">> >>
            \o [i \in 1..Len(block.text_lines) |->
                  <<"<code class=line>">> \o html_esc(block.text_lines[i]) \o <<"</code>">>]
            \o << <<"</div>">> >>]

Text_html(c, heap, block, depth) ==
  [ctx |-> c,
   html |-> << indent(depth, <<"<p>">>) >> \o Text_lines_html(block, depth, depth)
            \o << indent(depth, <<"</p>">>) >>]

Block_html(c, heap, id, depth) ==
  CASE heap[id].type = "Section" -> Section_html(c, heap, heap[id], depth)
    [] heap[id].type = "UList" -> UList_html(c, heap, heap[id], depth)
    [] heap[id].type = "ListItem" -> ListItem_html(c, heap, heap[id], depth)
    [] heap[id].type = "Quote" -> Quote_html(c, heap, heap[id], depth)
    [] heap[id].type = "Code" -> Code_html(c, heap, heap[id], depth)
    [] heap[id].type = "Text" -> Text_html(c, heap, heap[id], depth)

\* Ctx.emit_html: the blocks it does not skip are rendered; target_section is <<>>
\* for None.
Ctx_emit_html(c, depth, target_section) ==
  Blocks_html(c, c.heap,
              SelectSeq(c.blocks,
                        LAMBDA id : \/ target_section = <<>>
                                    \/ /\ c.heap[id].type = "Section"
                                       /\ text_for_spans(c.heap[id].title) = target_section),
              depth)

(***************************************************************************)
(* The two entry points.                                                   *)
(***************************************************************************)
\* The list of ids in the script writeup emits.
js_ids(l) == join(<<",">>, [i \in 1..Len(l) |-> <<"'s">> \o l[i] \o <<"'">>])

\* writeup_lines, were the license footer appended in every mode.
writeup_lines_footer_always(r, js, emit_doc) ==
  [ctx |-> r.ctx,
   html |-> (IF emit_doc
             THEN << <<"<!DOCTYPE html>">>, <<"<html>">>, <<"<head>">>,
                     <<"<meta charset>">>, <<"<title>">>, <<"<meta description>">>,
                     <<"<meta author>">>, <<"<link icon>">> >>
                  \o (IF js THEN << <<"<script>js</script>">> >> ELSE <<>>)
                  \o << <<"</head>">>, <<"<body id=body>">> >>
             ELSE <<>>)
            \o r.html
            \o (IF js
                THEN << <<"<script>">>,
                        <<"section_ids = [">> \o js_ids(r.ctx.section_ids) \o <<"];">>,
                        <<"paging_ids = ['body', ">> \o js_ids(r.ctx.paging_ids) \o <<"];">>,
                        <<"</script>">> >>
                ELSE <<>>)
            \o (IF r.ctx.license_lines # <<>>
                THEN << <<"<footer id=footer>">>,
                        join(<<"<br />", "\n">>, r.ctx.license_lines),
                        <<"</footer>">> >>
                ELSE <<>>)
            \o (IF emit_doc THEN << <<"</body>", "\n", "</html>">> >> ELSE <<>>)]

\* writeup(...): the lines it yields, r being what ctx.emit_html gave.  The title,
\* description, author and css of the head are fixed texts; js is a boolean.
writeup_lines(r, js, emit_doc) ==
  [ctx |-> r.ctx,
   html |-> (IF emit_doc
             THEN << <<"<!DOCTYPE html>">>, <<"<html>">>, <<"<head>">>,
                     <<"<meta charset>">>, <<"<title>">>, <<"<meta description>">>,
                     <<"<meta author>">>, <<"<link icon>">> >>
                  \o (IF js THEN << <<"<script>js</script>">> >> ELSE <<>>)
                  \o << <<"</head>">>, <<"<body id=body>">> >>
             ELSE <<>>)
            \o r.html
            \o (IF js
                THEN << <<"<script>">>,
                        <<"section_ids = [">> \o js_ids(r.ctx.section_ids) \o <<"];">>,
                        <<"paging_ids = ['body', ">> \o js_ids(r.ctx.paging_ids) \o <<"];">>,
                        <<"</script>">> >>
                ELSE <<>>)
            \o (IF emit_doc
                THEN (IF r.ctx.license_lines # <<>>
                      THEN << <<"<footer id=footer>">>,
                              join(<<"<br />", "\n">>, r.ctx.license_lines),
                              <<"</footer>">> >>
                      ELSE <<>>)
                     \o << <<"</body>", "\n", "</html>">> >>
                ELSE <<>>)]

\* writeup(...): what follows the construction of the Ctx; [ctx, html].
writeup(c, js, emit_doc, target_section) ==
  IF Exited(c) THEN [ctx |-> c, html |-> <<>>]
  ELSE writeup_lines(Ctx_emit_html(c, 0, target_section), js, emit_doc)

\* The order of str on symbol sequences: symbol by symbol, a proper prefix first.
SymbolOrder ==
  <<"&", "'", ".", ".foo", ".txt", ".wu", "/", ":", "<", "=", ">", "a", "b", "bad", "d",
    "missing", "p", "sub", "x">>

SymbolRank(sym) ==
  IF \E i \in 1..Len(SymbolOrder) : SymbolOrder[i] = sym
  THEN Min({i \in 1..Len(SymbolOrder) : SymbolOrder[i] = sym})
  ELSE 0

RECURSIVE str_le(_, _)
str_le(a, b) ==
  IF a = <<>> THEN TRUE
  ELSE IF b = <<>> THEN FALSE
  ELSE IF a[1] = b[1] THEN str_le(Tail(a), Tail(b))
  ELSE SymbolRank(a[1]) < SymbolRank(b[1])

\* sorted(list): the last element is put in its place among the sorted rest.
sorted_place(rest, x) ==
  SubSeq(rest, 1, Len(SelectSeq(rest, LAMBDA y : str_le(y, x)))) \o <<x>>
  \o From(rest, Len(SelectSeq(rest, LAMBDA y : str_le(y, x))) + 1)

\* sorted(list): a stable sort.
RECURSIVE sorted(_)
sorted(l) ==
  IF l = <<>> THEN <<>> ELSE sorted_place(sorted(SubSeq(l, 1, Len(l) - 1)), l[Len(l)])

\* writeup_dependencies, were every path returned once.
writeup_dependencies_unique(c) ==
  LET s == sorted(c.dependencies)
      keep == {i \in 1..Len(s) : i = 1 \/ s[i] # s[i - 1]}
  IN [k \in 1..Cardinality(keep) |->
        s[CHOOSE i \in keep : Cardinality({j \in keep : j <= i}) = k]]

\* writeup_dependencies(...): what follows the construction of the Ctx.
writeup_dependencies(c) == sorted(c.dependencies)

(***************************************************************************)
(* The inputs.  The source lines arrive one at a time from a stream; the   *)
(* model reads each next line from the alphabet chosen at the start.       *)
(***************************************************************************)
\* Headers of the depths 1, 2 and 3 and a paragraph line.
SectionLines ==
  {<<"#", " ", "A">>, <<"#", " ", "B">>, <<"#", "#", " ", "C">>, <<"#", "#", "#", " ", "D">>,
   <<"t">>}

\* List items of the levels 1, 2 and 3, a paragraph line indented to level 1, a
\* paragraph line, a blank line and a header.
ListLines ==
  {<<"*", " ", "a">>, <<" ", " ", "*", " ", "b">>, <<" ", " ", " ", " ", "*", " ", "c">>,
   <<" ", " ", "u">>, <<"t">>, <<>>, <<"#", " ", "A">>}

\* Embeds of an absent file, of a text file and of a file of unknown extension,
\* and a link.
SpanLines ==
  {<<"<", "embed", ":", "missing", ".txt", ">">>, <<"<", "embed", ":", "a", ".txt", ">">>,
   <<"<", "embed", ":", "x", ".foo", ">">>, <<"<", "link", ":", "p", ">">>}

\* In a source directory: embeds of an absent file and of a .wu file without its
\* version line, a link and a quoted embed of an absent file.
SubdirLines ==
  {<<"<", "embed", ":", "missing", ".txt", ">">>, <<"<", "embed", ":", "bad", ".wu", ">">>,
   <<"<", "link", ":", "p", ">">>, <<">", " ", "<", "embed", ":", "missing", ".txt", ">">>}

\* The documents read: a source path and the lines its stream draws from.  After
\* the four alphabets above:
\*  - embeds of a .wu file and of a text file, a quoted embed and a link;
\*  - headers of depth 1, a quoted header, a paragraph line and a blank line;
\*  - a span of unknown tag in a paragraph, in a title and in a code line, a
\*    link and a link quoted twice;
\*  - angle spans without a colon (of a link tag, of b, of an unknown tag), in a
\*    paragraph and in a title, a paragraph line and a blank line;
\*  - whitespace-only lines of one and of two spaces, a paragraph line indented by
\*    one space, a list item, a quote line and a blank line;
\*  - license lines, a paragraph line, a blank line, a whitespace-only line and a
\*    quoted license line;
\*  - quoted headers with two spaces after the # (a warning) at the quote depths 1
\*    and 2, a paragraph line and a blank line;
\*  - a quoted version line, a quoted span without body (an error), a paragraph
\*    line and a blank line;
\*  - a list item, a code line indented to level 1, a blank line and a header of
\*    depth 3;
\*  - a license line, a blank line and a header;
\*  - a paragraph line with a code span between two plain runs, one of a code
\*    span next to a bold span, and one with an unclosed backtick;
\*  - code lines that hold an embed of an absent file and a link, and a
\*    paragraph line with a code span;
\*  - bold spans whose words are a plain word then a key=value word, a key=value
\*    word then a plain word, and a key=value; word then a word that holds an =;
\*  - quoted list items of the levels 1 and 2 and a quoted paragraph line.
Profiles ==
  {[src_path |-> <<"doc", ".wu">>, alphabet |-> SectionLines],
   [src_path |-> <<"doc", ".wu">>, alphabet |-> ListLines],
   [src_path |-> <<"doc", ".wu">>, alphabet |-> SpanLines],
   [src_path |-> <<"sub", "/", "doc", ".wu">>, alphabet |-> SubdirLines],
   [src_path |-> <<"doc", ".wu">>,
    alphabet |-> {<<"<", "embed", ":", "d", ".wu", ">">>, <<"<", "embed", ":", "a", ".txt", ">">>,
                  <<">", " ", "<", "embed", ":", "a", ".txt", ">">>,
                  <<"<", "link", ":", "p", ">">>}],
   [src_path |-> <<"doc", ".wu">>,
    alphabet |-> {<<"#", " ", "A">>, <<"#", " ", "B">>, <<">", " ", "#", " ", "A">>, <<"t">>,
                  <<>>}],
   [src_path |-> <<"doc", ".wu">>,
    alphabet |-> {<<"<", "foo", ":", "bar", ">">>, <<"<", "link", ":", "p", ">">>,
                  <<">", " ", ">", " ", "<", "link", ":", "p", ">">>,
                  <<"#", " ", "A", " ", "<", "foo", ":", "bar", ">">>,
                  <<"|", " ", "<", "foo", ":", "bar", ">">>}],
   [src_path |-> <<"doc", ".wu">>,
    alphabet |-> {<<"<", "http", ">">>, <<"<", "link", ">">>, <<"<", "b", ">">>,
                  <<"<", "foo", ">">>, <<"#", " ", "B", " ", "<", "b", ">">>, <<"t">>, <<>>}],
   [src_path |-> <<"doc", ".wu">>,
    alphabet |-> {<<" ">>, <<" ", " ">>, <<" ", "t">>, <<"*", " ", "a">>, <<">", " ", "q">>,
                  <<>>}],
   [src_path |-> <<"doc", ".wu">>,
    alphabet |-> {<<"Copyright", " ", "x">>, <<"©", " ", "y">>, <<"t">>, <<>>, <<" ", " ">>,
                  <<">", " ", "Copyright", " ", "x">>}],
   [src_path |-> <<"doc", ".wu">>,
    alphabet |-> {<<">", " ", "#", " ", " ", "A">>, <<">", " ", ">", " ", "#", " ", " ", "B">>,
                  <<"t">>, <<>>}],
   [src_path |-> <<"doc", ".wu">>,
    alphabet |-> {<<">", " ", "writeup v", "1">>, <<">", " ", "<", "b", ">">>, <<"t">>, <<>>}],
   [src_path |-> <<"doc", ".wu">>,
    alphabet |-> {<<"*", " ", "a">>, <<" ", " ", "|", " ", "c">>, <<>>,
                  <<"#", "#", "#", " ", "D">>}],
   [src_path |-> <<"doc", ".wu">>,
    alphabet |-> {<<"Copyright", " ", "x">>, <<>>, <<"#", " ", "A">>}],
   [src_path |-> <<"doc", ".wu">>,
    alphabet |-> {<<"Hello", " ", BACKTICK, "world", BACKTICK, ".">>,
                  <<BACKTICK, "a", BACKTICK, "<", "b", ":", "x", ">">>,
                  <<"t", BACKTICK>>}],
   [src_path |-> <<"doc", ".wu">>,
    alphabet |-> {<<"|", " ", "<", "embed", ":", "missing", ".txt", ">">>,
                  <<"|", " ", "<", "link", ":", "p", ">">>,
                  <<"Hello", " ", BACKTICK, "world", BACKTICK, ".">>}],
   [src_path |-> <<"doc", ".wu">>,
    alphabet |-> {<<"<", "b", ":", "a", " ", "k", "=", "x", ">">>,
                  <<"<", "b", ":", "k", "=", "x", " ", "a", ">">>,
                  <<"<", "b", ":", "k", "=", "x", ";", " ", "a", "=", "b", ">">>}],
   [src_path |-> <<"doc", ".wu">>,
    alphabet |-> {<<">", " ", "*", " ", "a">>, <<">", " ", " ", " ", "*", " ", "b">>,
                  <<">", " ", "t">>}]}

\* The first line of the stream; <<>> is a stream with no line at all.
VersionLines ==
  {<<"writeup v", "0", "\n">>, <<"writeup v", "1", "\n">>, <<"writeup v", "0">>,
   <<"#", " ", "A", "\n">>, <<>>}

\* (js, emit_doc, target_section) of a call of writeup.
RenderOptions ==
  {[js |-> TRUE, emit_doc |-> TRUE, target_section |-> <<>>],
   [js |-> FALSE, emit_doc |-> FALSE, target_section |-> <<>>],
   [js |-> FALSE, emit_doc |-> TRUE, target_section |-> <<"A">>]}

(***************************************************************************)
(* The state machine.  writeup and writeup_dependencies run side by side   *)
(* on the same stream: ctx[e] is the Ctx of entry point e.                 *)
(*   pc = "version": the Ctx is constructed, parse has read no line;       *)
(*   pc = "lines": parse is in its loop over the lines;                    *)
(*   pc = "eof": the last line read had no newline, the stream is at end;  *)
(*   pc = "parsed": parse has returned;                                    *)
(*   pc = "returned": the entry point has returned result[e].              *)
(* lines_read holds the lines the iterator over src_lines has yielded.     *)
(* A run that called exit() stays as it is: Exited(ctx[e]).                *)
(***************************************************************************)
Entries == {"writeup", "writeup_dependencies"}

\* The Ctx(...) each entry point constructs.
EntryCtx(path, e) == Ctx_fields(path, e = "writeup", TRUE, TRUE, 0, 0, NewWorld)

Running == \E e \in Entries : ~Exited(ctx[e])

Init ==
  /\ \E p \in Profiles : src_path = p.src_path /\ alphabet = p.alphabet
  /\ pc = "version"
  /\ nread = 0
  /\ lines_read = <<>>
  /\ ctx = [e \in Entries |-> EntryCtx(src_path, e)]
  /\ result = [e \in Entries |-> [returned |-> FALSE, value |-> <<>>]]

\* parse: the version line is read and checked.
ReadVersion(version_line) ==
  /\ pc = "version"
  /\ ctx' = [e \in Entries |-> parse_start(parse_version(ctx[e], version_line))]
  /\ pc' = "lines"
  /\ lines_read' = IF version_line = <<>> THEN <<>> ELSE <<version_line>>
  /\ UNCHANGED <<src_path, alphabet, nread, result>>

\* parse: one more line is read from the stream and processed.
ReadLine(raw_line) ==
  /\ pc = "lines"
  /\ Running
  /\ nread < MaxLines
  /\ nread' = nread + 1
  /\ lines_read' = Append(lines_read, raw_line)
  /\ ctx' = [e \in Entries |-> parse_line(ctx[e], raw_line)]
  /\ pc' = IF endswith(raw_line, "\n") THEN "lines" ELSE "eof"
  /\ UNCHANGED <<src_path, alphabet, result>>

\* parse: the stream is at its end, the stack is emptied.
EndOfInput ==
  /\ pc \in {"lines", "eof"}
  /\ Running
  /\ ctx' = [e \in Entries |-> parse_return(parse_finish(ctx[e]))]
  /\ pc' = "parsed"
  /\ UNCHANGED <<src_path, alphabet, nread, lines_read, result>>

\* The two entry points return, r being what writeup computed.
Returns(r) ==
  /\ ctx' = [ctx EXCEPT !["writeup"] = r.ctx]
  /\ result' = [writeup |-> IF Exited(r.ctx) THEN result["writeup"]
                            ELSE [returned |-> TRUE, value |-> r.html],
                writeup_dependencies |->
                  IF Exited(ctx["writeup_dependencies"]) THEN result["writeup_dependencies"]
                  ELSE [returned |-> TRUE,
                        value |-> writeup_dependencies(ctx["writeup_dependencies"])]]

\* writeup yields its lines; writeup_dependencies returns its list.
Return(opt) ==
  /\ pc = "parsed"
  /\ Running
  /\ Returns(writeup(ctx["writeup"], opt.js, opt.emit_doc, opt.target_section))
  /\ pc' = "returned"
  /\ UNCHANGED <<src_path, alphabet, nread, lines_read>>

Next ==
  \/ \E version_line \in VersionLines : ReadVersion(version_line)
  \/ \E line \in alphabet : \E nl \in {<<"\n">>, <<>>} : ReadLine(line \o nl)
  \/ EndOfInput
  \/ \E opt \in RenderOptions : Return(opt)

Spec == Init /\ [][Next]_vars

(***************************************************************************)
(* Properties.                                                             *)
(***************************************************************************)
Range(s) == {s[i] : i \in 1..Len(s)}

\* The Documents of entry point e whose parse has returned: the quote sub-parses
\* and the embedded .wu files, then the top-level Document.
Documents(e) == ctx[e].world.documents

\* exit(1) through ctx.error with the message msg.
FatalError(c, msg) ==
  /\ Exited(c)
  /\ c.world.stderr[Len(c.world.stderr)].kind = "error"
  /\ c.world.stderr[Len(c.world.stderr)].msg = msg

\* The ids of the Blocks of class type of a Ctx, in order of creation.
BlocksOf(c, type) ==
  SelectSeq([id \in 1..Len(c.heap) |-> id], LAMBDA id : c.heap[id].type = type)

\* Whether the first two headers of a top-level Document were # A and then # B.
HeadersAThenB(c) ==
  LET s == BlocksOf(c, "Section")
  IN /\ c.quote_depth = 0
     /\ Len(s) >= 2
     /\ c.heap[s[1]].section_depth = 1 /\ text_for_spans(c.heap[s[1]].title) = <<"A">>
     /\ c.heap[s[2]].section_depth = 1 /\ text_for_spans(c.heap[s[2]].title) = <<"B">>

\* The index paths of the first two Sections of a Ctx.
FirstTwoPaths(c) ==
  <<c.heap[BlocksOf(c, "Section")[1]].index_path, c.heap[BlocksOf(c, "Section")[2]].index_path>>

\* C1 (as the code has it): when the first two section headers of a document are
\* the depth-1 headers # A and then # B, the two Sections get the index paths
\* (0,) and (1,): the first section of a document is the intro, indexed 0.
C1_IntroThenOne ==
  \A e \in Entries : HeadersAThenB(ctx[e]) => FirstTwoPaths(ctx[e]) = << <<0>>, <<1>> >>

C1_Witness ==
  /\ pc = "returned"
  /\ result["writeup"].returned
  /\ HeadersAThenB(ctx["writeup"])
  /\ FirstTwoPaths(ctx["writeup"]) = << <<0>>, <<1>> >>

\* C1 as stated: when the first two section headers of a document are the depth-1
\* headers # A and then # B, the two Sections get the index paths (1,) and (2,).
C1_AsStated ==
  \A e \in Entries : HeadersAThenB(ctx[e]) => FirstTwoPaths(ctx[e]) = << <<1>>, <<2>> >>

\* The list a Block is a member of: the blocks of a Section of the Ctx, or the
\* blocks of the Ctx when it has no parent; in both cases a set of ids.
ParentsOf(c, id) ==
  {p \in 1..Len(c.heap) : c.heap[p].type = "Section" /\ id \in Range(c.heap[p].blocks)}

SameParent(c, a, b) ==
  \/ ParentsOf(c, a) # {} /\ ParentsOf(c, a) = ParentsOf(c, b)
  \/ ParentsOf(c, a) = {} /\ ParentsOf(c, b) = {}
     /\ a \in Range(c.blocks) /\ b \in Range(c.blocks)

\* Whether the index paths of a Document are as C2 says.
IndexPathsOk(c) ==
  LET s == Range(BlocksOf(c, "Section"))
  IN /\ \A id \in s : Len(c.heap[id].index_path) = c.heap[id].section_depth
     /\ \A a, b \in s :
          a < b /\ SameParent(c, a, b)
          => c.heap[a].index_path[Len(c.heap[a].index_path)]
             < c.heap[b].index_path[Len(c.heap[b].index_path)]

\* C2: in every Document of an accepted input, the length of the index path of
\* every Section is its section depth, and among the Sections of one parent the
\* last index component is strictly increasing in source order.
C2_PathLengthIsDepth ==
  \A e \in Entries : \A k \in 1..Len(Documents(e)) : IndexPathsOk(Documents(e)[k])

\* C3: every Section that a header opened has section depth 1 or lies in a Section
\* of the depth above: a header that skips a depth pushes no Section.
C3_HeaderHasParent ==
  \A e \in Entries :
    \A id \in Range(BlocksOf(ctx[e], "Section")) :
      \/ ctx[e].heap[id].section_depth = 1
      \/ \E p \in ParentsOf(ctx[e], id) :
           ctx[e].heap[p].section_depth = ctx[e].heap[id].section_depth - 1

\* The step in which entry point e processes a list-item line with an even indent.
ListItemStep(e) ==
  /\ nread' = nread + 1
  /\ ~Exited(ctx[e])
  /\ ~is_license_line(ctx[e].prev_state, ctx'[e].line)
  /\ line_re(ctx'[e].line).list_star # <<>>
  /\ Len(line_re(ctx'[e].line).indents) % 2 = 0

\* The list level a list-item line opens.
ItemLevel(line) == Len(line_re(line).indents) \div 2 + 1

\* Every UList above level 1 is one of the blocks of a ListItem of the level below.
ListsNested(c) ==
  \A u \in Range(BlocksOf(c, "UList")) :
    \/ c.heap[u].list_level = 1
    \/ \E li \in Range(BlocksOf(c, "ListItem")) :
         /\ c.heap[li].list_level = c.heap[u].list_level - 1
         /\ u \in Range(c.heap[li].blocks)

\* A list item without its parent list is the error of writeup_line; an item whose
\* parent list is open is not, and the Ctx is then at the level of the item.
ListItemChecked(e) ==
  ListItemStep(e) =>
    IF Ctx_list_level(ctx[e]) < ItemLevel(ctx'[e].line) - 1
    THEN FatalError(ctx'[e], "indent implies missing parent list")
    ELSE /\ ~FatalError(ctx'[e], "indent implies missing parent list")
         /\ ~Exited(ctx'[e]) => Ctx_list_level(ctx'[e]) = ItemLevel(ctx'[e].line)

\* C4: a list-item line that opens level L while no list of level L-1 is open is
\* fatal; items that open the levels one after the other are accepted, and every
\* UList they build above level 1 lies in the ListItem of the level below.
C4_ListLevelsContiguous ==
  /\ [](\A e \in Entries : ListsNested(ctx[e]))
  /\ [][\A e \in Entries : ListItemChecked(e)]_vars

\* Three lists of the levels 1, 2, 3 are open in one another.
C4_Witness ==
  /\ ~Exited(ctx["writeup"])
  /\ Ctx_list_level(ctx["writeup"]) = 3
  /\ Len(BlocksOf(ctx["writeup"], "UList")) = 3
  /\ ListsNested(ctx["writeup"])

\* The Blocks a Block of the stack contains: those pushed while it was open.
ChildrenOf(b) == IF b.type = "Quote" THEN {} ELSE Range(b.blocks) \cup Range(b.items)

ClosedAt(c, id) == CHOOSE k \in 1..Len(c.closed) : c.closed[k] = id

\* The stack is empty and every Block was closed once, after the Blocks it contains.
Drained(c) ==
  /\ c.stack = <<>>
  /\ Len(c.closed) = Len(c.heap)
  /\ \A id \in 1..Len(c.heap) :
       /\ c.heap[id].finished = 1
       /\ id \in Range(c.closed)
       /\ \A child \in ChildrenOf(c.heap[id]) :
            child \in Range(c.closed) /\ ClosedAt(c, child) < ClosedAt(c, id)

\* C5: when the parse of a Document (top-level, quote sub-parse or embedded .wu)
\* returns, its stack is empty and every Block that was on the stack has been
\* finished exactly once, each after the Blocks nested in it.
C5_StackDrained ==
  \A e \in Entries : \A k \in 1..Len(Documents(e)) : Drained(Documents(e)[k])

\* The parses of an embedded .wu file, of a quote and of the top-level Document
\* that holds both have returned.
C5_Witness ==
  /\ pc = "parsed"
  /\ \E k \in 1..Len(Documents("writeup")) :
       Documents("writeup")[k].src_path # src_path /\ Len(Documents("writeup")[k].heap) >= 2
  /\ \E k \in 1..Len(Documents("writeup")) :
       Documents("writeup")[k].quote_depth = 1 /\ Len(Documents("writeup")[k].heap) >= 1
  /\ \E k \in 1..Len(Documents("writeup")) :
       /\ Documents("writeup")[k].src_path = src_path
       /\ Documents("writeup")[k].quote_depth = 0
       /\ Len(Documents("writeup")[k].heap) >= 2

\* The section tags of the output, in order.
SectionTags(html) ==
  SelectSeq(Flatten(html), LAMBDA sym : sym \in {"<section", "</section>"})

\* The number of sections open after the tags, n being open before them; -1 once
\* a close tag finds no section open.
RECURSIVE OpenAfter(_, _)
OpenAfter(tags, n) ==
  IF n < 0 \/ tags = <<>> THEN n
  ELSE OpenAfter(Tail(tags), IF tags[1] = "<section" THEN n + 1 ELSE n - 1)

\* C6: in the output of writeup there are as many section close tags as open tags,
\* and every close tag closes the section opened last among those still open.
C6_SectionTagsBalanced ==
  result["writeup"].returned =>
    /\ Len(SelectSeq(SectionTags(result["writeup"].value), LAMBDA t : t = "<section"))
       = Len(SelectSeq(SectionTags(result["writeup"].value), LAMBDA t : t = "</section>"))
    /\ OpenAfter(SectionTags(result["writeup"].value), 0) = 0

\* The output holds a section in a section, and a section after a section.
C6_Witness ==
  /\ result["writeup"].returned
  /\ \E i \in 1..Len(SectionTags(result["writeup"].value)) :
       /\ i + 3 <= Len(SectionTags(result["writeup"].value))
       /\ SubSeq(SectionTags(result["writeup"].value), i, i + 3)
          = <<"<section", "<section", "</section>", "</section>">>
  /\ \E i \in 1..Len(SectionTags(result["writeup"].value)) :
       /\ i + 1 <= Len(SectionTags(result["writeup"].value))
       /\ SubSeq(SectionTags(result["writeup"].value), i, i + 1) = <<"</section>", "<section">>

\* The spans of a Ctx: the titles and the lines of its Blocks.
OwnSpans(c) ==
  Flatten([id \in 1..Len(c.heap) |->
             IF c.heap[id].type = "Section" THEN c.heap[id].title
             ELSE IF c.heap[id].type = "Text" THEN Flatten(c.heap[id].lines)
             ELSE <<>>])

\* The spans of a Ctx and of the quotes in it, at any depth.
RECURSIVE SpansOf(_)
SpansOf(c) ==
  OwnSpans(c)
  \o Flatten([id \in 1..Len(c.heap) |->
                IF c.heap[id].type = "Quote" /\ c.heap[id].quote_ctx # <<>>
                THEN SpansOf(c.heap[id].quote_ctx)
                ELSE <<>>])

\* The paths the embed spans and the link: spans refer to.
ReferencedPaths(spans) ==
  {spans[i].path : i \in {j \in 1..Len(spans) : spans[j].type = "EmbedSpan"}}
  \cup {spans[i].link : i \in {j \in 1..Len(spans) :
                                 spans[j].type = "LinkSpan" /\ spans[j].tag = <<"link">>}}

\* C7: writeup_dependencies returns every path that an embed span or a link: span
\* of the document refers to, the spans inside block quotes included.
C7_AllDependenciesListed ==
  result["writeup_dependencies"].returned =>
    ReferencedPaths(SpansOf(ctx["writeup_dependencies"]))
    \subseteq Range(result["writeup_dependencies"].value)

\* C8: on an input on which writeup exits for a reason other than an absent embed
\* file, writeup_dependencies exits too.
C8_SameFatalConditions ==
  /\ pc \in {"parsed", "returned"}
  /\ Exited(ctx["writeup"])
  /\ ~FatalError(ctx["writeup"], "embedded file not found")
  => Exited(ctx["writeup_dependencies"])

\* The path an embed of target resolves to in a document at source.
ResolvedPath(source, target) ==
  IF path_dir(source) = <<>> THEN target ELSE path_dir(source) \o <<"/">> \o target

\* The embed spans among spans.
EmbedSpans(spans) == {spans[i] : i \in {j \in 1..Len(spans) : spans[j].type = "EmbedSpan"}}

\* The input of the example: the one line <embed:missing.txt> of doc.wu.
OnlyEmbedMissing(c) ==
  /\ c.src_path = <<"doc", ".wu">>
  /\ Len(c.heap) = 1
  /\ c.heap[1].type = "Text"
  /\ c.heap[1].text_lines = << <<"<", "embed", ":", "missing", ".txt", ">">> >>

\* C9: an embed of an absent file is fatal for writeup; writeup_dependencies does
\* not fail on it and opens no file, and the Ctx that meets the span registers the
\* resolved path; the one line <embed:missing.txt> gives ["missing.txt"].
C9_AbsentEmbed ==
  /\ ctx["writeup_dependencies"].world.opened = <<>>
  /\ \A i \in 1..Len(ctx["writeup_dependencies"].world.stderr) :
       ctx["writeup_dependencies"].world.stderr[i].msg # "embedded file not found"
  /\ \A s \in EmbedSpans(OwnSpans(ctx["writeup_dependencies"])) :
       /\ s.path = ResolvedPath(src_path, s.text)
       /\ s.path \in Range(ctx["writeup_dependencies"].dependencies)
  /\ \A s \in EmbedSpans(SpansOf(ctx["writeup_dependencies"])) :
       ~path_exists(s.path) => Exited(ctx["writeup"])
  /\ result["writeup_dependencies"].returned /\ OnlyEmbedMissing(ctx["writeup_dependencies"])
     => result["writeup_dependencies"].value = << <<"missing", ".txt">> >>

\* The example: writeup has exited on the absent file, writeup_dependencies has
\* returned its path.
C9_Witness ==
  /\ pc = "returned"
  /\ OnlyEmbedMissing(ctx["writeup_dependencies"])
  /\ FatalError(ctx["writeup"], "embedded file not found")
  /\ ctx["writeup"].world.opened = <<>>
  /\ result["writeup_dependencies"].returned
  /\ result["writeup_dependencies"].value = << <<"missing", ".txt">> >>

\* The tags of the angle spans of text that span_re.finditer finds from position from.
RECURSIVE AngleTags(_, _)
AngleTags(text, from) ==
  LET start == span_re_search(text, from)
      m == span_re_at(text, start)
  IN IF start = 0 THEN {}
     ELSE (IF m.lastindex = 2
           THEN {partition(SubSeq(text, start + 1, m.end - 1), ":")[1]}
           ELSE {})
          \cup AngleTags(text, m.end + 1)

RecognizedTags ==
  {<<"b">>, <<"embed">>, <<"http">>, <<"https">>, <<"mailto">>, <<"link">>, <<"span">>}

UnknownTag(text) == AngleTags(text, 1) \ RecognizedTags # {}

\* No paragraph whose lines were converted holds an angle span of an unknown tag.
NoUnknownTag(c) ==
  \A id \in Range(BlocksOf(c, "Text")) :
    c.heap[id].finished >= 1 =>
      \A i \in 1..Len(c.heap[id].text_lines) : ~UnknownTag(c.heap[id].text_lines[i])

\* C10: an angle span whose tag is not b, embed, http, https, mailto, link or span
\* is fatal in a paragraph line and in a section title, for writeup and for
\* writeup_dependencies: a run that goes on has met no such span.
C10_UnknownTagFatal ==
  \A e \in Entries :
    ~Exited(ctx[e]) =>
      /\ NoUnknownTag(ctx[e])
      /\ \A k \in 1..Len(Documents(e)) : NoUnknownTag(Documents(e)[k])
      /\ ctx[e].prev_state = s_section => ~UnknownTag(line_re(ctx[e].line).section_title)

\* Both entry points have exited on the title # A <foo:bar>.
C10_Witness ==
  \A e \in Entries :
    /\ FatalError(ctx[e], "span has invalid tag")
    /\ line_re(ctx[e].line).section_title = <<"A", " ", "<", "foo", ":", "bar", ">">>

\* The texts between < and > of the angle spans that span_re.finditer finds in
\* text from position from.
RECURSIVE AngleTexts(_, _)
AngleTexts(text, from) ==
  LET start == span_re_search(text, from)
      m == span_re_at(text, start)
  IN IF start = 0 THEN {}
     ELSE (IF m.lastindex = 2 THEN {SubSeq(text, start + 1, m.end - 1)} ELSE {})
          \cup AngleTexts(text, m.end + 1)

MissingColon(text) == \E t \in AngleTexts(text, 1) : ":" \notin Range(t)

\* No paragraph whose lines were converted holds an angle span without a colon.
NoMissingColon(c) ==
  \A id \in Range(BlocksOf(c, "Text")) :
    c.heap[id].finished >= 1 =>
      \A i \in 1..Len(c.heap[id].text_lines) : ~MissingColon(c.heap[id].text_lines[i])

\* C11: an angle span without a colon after its tag is fatal whatever the tag, the
\* link tags http, https, mailto and link included: a run that goes on has
\* converted no such span, in a paragraph or in a title.
C11_MissingColonFatal ==
  \A e \in Entries :
    ~Exited(ctx[e]) =>
      /\ NoMissingColon(ctx[e])
      /\ \A k \in 1..Len(Documents(e)) : NoMissingColon(Documents(e)[k])
      /\ ctx[e].prev_state = s_section => ~MissingColon(line_re(ctx[e].line).section_title)

\* Whether a line that is not a header has an indent of odd length.
OddIndent(line) ==
  line_re(line).lastgroup # "section_title" /\ Len(line_re(line).indents) % 2 = 1

\* Whether the current line of a Ctx went through writeup_line: the version line is
\* read, and the line was not kept as a license line.
LineProcessed(c) ==
  /\ pc # "version"
  /\ c.enum_next > c.line_offset
  /\ Exited(c) \/ c.prev_state # s_license

\* The reports of a Ctx about its current line.
ReportsAtLine(c) ==
  {i \in 1..Len(c.world.stderr) :
     /\ c.world.stderr[i].src_path = c.src_path
     /\ c.world.stderr[i].line_num = c.line_num + 1
     /\ c.world.stderr[i].line = c.line}

\* C12 (as the code has it): a line that is not a header and not a license line
\* and whose indent has odd length is fatal: it is the error "odd indentation
\* length" of writeup_line, and the run exits on it.
C12_OddIndentFatal ==
  \A e \in Entries :
    LineProcessed(ctx[e]) /\ OddIndent(ctx[e].line)
    => FatalError(ctx[e], "odd indentation length")

\* Both entry points have exited on the line " t", read after a list item.
C12_Witness ==
  /\ nread = 2
  /\ \A e \in Entries :
       /\ ctx[e].line = <<" ", "t">>
       /\ ctx[e].line_num = 2
       /\ Len(ctx[e].heap) >= 2
       /\ FatalError(ctx[e], "odd indentation length")

\* C12 as stated: a line whose indent has odd length only gives a warning, and
\* the parse goes on.
C12_OddIndentWarns ==
  \A e \in Entries :
    LineProcessed(ctx[e]) /\ OddIndent(ctx[e].line)
    => /\ ~FatalError(ctx[e], "odd indentation length")
       /\ \E i \in ReportsAtLine(ctx[e]) : ctx[e].world.stderr[i].kind = "warning"

\* A line that is not empty and holds whitespace only.
WhitespaceOnly(line) == line # <<>> /\ \A i \in 1..Len(line) : line[i] \in Whitespace

\* Whether the run of a Ctx ended with an error reported for its current line.
AbortedByLine(c) == Exited(c) /\ Len(c.world.stderr) \in ReportsAtLine(c)

\* C13: a whitespace-only line that is not empty only gives a warning, in every
\* state of the parser: the line is reported by a warning and does not end the run.
C13_BlankLineOnlyWarns ==
  \A e \in Entries :
    LineProcessed(ctx[e]) /\ WhitespaceOnly(ctx[e].line)
    => /\ ~AbortedByLine(ctx[e])
       /\ \E i \in ReportsAtLine(ctx[e]) : ctx[e].world.stderr[i].kind = "warning"

\* A blank line: empty or whitespace only (no list item, no content).
BlankLine(line) == line_re(line).lastgroup = "" /\ line_re(line).list_star = <<>>

\* The step in which entry point e processes a blank line and accepts it.
BlankStep(e) ==
  /\ nread' = nread + 1
  /\ ~Exited(ctx[e])
  /\ ~Exited(ctx'[e])
  /\ BlankLine(ctx'[e].line)

\* What a blank line may do to a Ctx: the stack is as it was, or it has lost its top
\* and that was a leaf block; no Block is created, and every Section, UList and
\* ListItem of the stack is still on it, as it was.
BlankFrame(before, after) ==
  /\ \/ after.stack = before.stack
     \/ /\ before.stack # <<>>
        /\ TopType(before) \in LeafBlock
        /\ after.stack = SubSeq(before.stack, 1, Len(before.stack) - 1)
  /\ Len(after.heap) = Len(before.heap)
  /\ \A i \in 1..Len(before.stack) :
       before.heap[before.stack[i]].type \in {"Section", "UList", "ListItem"}
       => /\ i <= Len(after.stack)
          /\ after.stack[i] = before.stack[i]
          /\ after.heap[after.stack[i]] = before.heap[before.stack[i]]

\* C14: an accepted blank line pops at most one Block, and only a leaf block
\* (Text, Quote, Code) at the top of the stack; every Section, UList and ListItem
\* of the stack stays open and unchanged.
C14_BlankLineFrame ==
  [][\A e \in Entries : BlankStep(e) => BlankFrame(ctx[e], ctx'[e])]_vars

\* A blank line has closed the paragraph of a list item: the item and its list are
\* still open.
C14_Witness ==
  /\ pc = "lines"
  /\ BlankLine(ctx["writeup"].line)
  /\ LineProcessed(ctx["writeup"])
  /\ ~Exited(ctx["writeup"])
  /\ Len(ctx["writeup"].stack) = 2
  /\ TopType(ctx["writeup"]) = "ListItem"
  /\ ctx["writeup"].closed # <<>>
  /\ ctx["writeup"].heap[ctx["writeup"].closed[Len(ctx["writeup"].closed)]].type = "Text"

\* The lines after the version line that the iterator has yielded, without their
\* newline.
ContentLines == [i \in 1..(Len(lines_read) - 1) |-> rstrip_nl(lines_read[i + 1])]

\* Whether the line begins with one of the markers of a license notice.
LicenseMarker(line) ==
  line # <<>> /\ line[1] \in {"©", "Copyright", "Dedicated to the public domain"}

\* The length of the leading run of lines that all satisfy P.
LeadingRun(lines, P(_)) ==
  LET stops == {i \in 1..Len(lines) : ~P(lines[i])}
  IN IF stops = {} THEN Len(lines) ELSE Min(stops) - 1

\* The notice of a document: when its first line begins with a marker, that line
\* and every line after it up to the first blank line.
LicenseBlock(lines) ==
  IF lines = <<>> \/ ~LicenseMarker(lines[1]) THEN <<>>
  ELSE <<str_strip(lines[1])>>
       \o SubSeq(lines, 2, 1 + LeadingRun(Tail(lines), LAMBDA l : str_strip(l) # <<>>))

\* C15 (as the code has it): the license lines of a document are one leading run:
\* the first line, when it begins with a marker, and every line after it up to the
\* first blank line, with or without a marker; no later line is captured.  The
\* same holds of the lines of a quote, which are a document of their own.
C15_LicenseBlock ==
  \A e \in Entries :
    ~Exited(ctx[e]) /\ pc # "version"
    => /\ ctx[e].license_lines = LicenseBlock(ContentLines)
       /\ \A id \in Range(BlocksOf(ctx[e], "Quote")) :
            ctx[e].heap[id].quote_ctx # <<>>
            => ctx[e].heap[id].quote_ctx.license_lines
               = LicenseBlock(ctx[e].heap[id].text_lines)

\* A line without marker was captured after the notice line, and a blank line
\* ended the capture.
C15_Witness ==
  /\ ~Exited(ctx["writeup"])
  /\ nread = 3
  /\ pc = "parsed"
  /\ ctx["writeup"].license_lines = << <<"Copyright", " ", "x">>, <<"t">> >>
  /\ ContentLines[3] = <<>>

\* C15 as stated: the license lines are the leading run of the lines that begin
\* with a marker; the capture stops at the first line without one.
C15_OnlyMarkedLines ==
  \A e \in Entries :
    ~Exited(ctx[e]) /\ pc # "version"
    => ctx[e].license_lines
       = [i \in 1..LeadingRun(ContentLines, LicenseMarker) |-> str_strip(ContentLines[i])]

\* Whether a first line is the version header of version 0.
VersionOk(first_line) == version_re(first_line) # <<>> /\ int(version_re(first_line)) = 0

\* The first line of the source of a Ctx: of the stream read, or of an embedded file.
FirstLineOf(c) ==
  IF c.src_path = src_path
  THEN IF lines_read = <<>> THEN <<>> ELSE lines_read[1]
  ELSE IF open(c.src_path).lines = <<>> THEN <<>> ELSE open(c.src_path).lines[1]

\* A Document that takes a version line took a good one and nothing else before
\* its content; a quote takes none, and every captured line is content.
VersionChecked(c) ==
  IF c.is_versioned
  THEN VersionOk(FirstLineOf(c)) /\ c.line_offset = 1
  ELSE c.quote_depth >= 1

\* C16: a top-level Document and an embedded .wu Document are accepted only when
\* their first line is the header writeup v<digits> of version 0; without it the
\* run exits before any content line is processed.  A quote needs no header and
\* every one of its lines is content.
C16_VersionHeader ==
  \A e \in Entries :
    pc # "version" =>
      /\ IF VersionOk(FirstLineOf(ctx[e]))
         THEN \A i \in 1..Len(ctx[e].world.stderr) : ctx[e].world.stderr[i].kind = "exit"
                => ctx[e].world.stderr[i].src_path # src_path
         ELSE /\ Exited(ctx[e])
              /\ Len(ctx[e].world.stderr) = 1
              /\ ctx[e].world.stderr[1].kind = "exit"
              /\ ctx[e].heap = <<>> /\ ctx[e].license_lines = <<>> /\ ctx[e].enum_next = 0
              /\ nread = 0
      /\ \A k \in 1..Len(Documents(e)) : VersionChecked(Documents(e)[k])
      /\ \A id \in Range(BlocksOf(ctx[e], "Quote")) :
           ctx[e].heap[id].quote_ctx # <<>>
           => /\ ~ctx[e].heap[id].quote_ctx.is_versioned
              /\ ctx[e].heap[id].quote_ctx.enum_next - ctx[e].heap[id].quote_ctx.line_offset
                 = Len(ctx[e].heap[id].text_lines)
      /\ \A i \in 1..Len(ctx[e].world.stderr) :
           /\ ctx[e].world.stderr[i].kind = "exit"
           /\ ctx[e].world.stderr[i].src_path # src_path
           => /\ i = Len(ctx[e].world.stderr)
              /\ ~VersionOk(open(ctx[e].world.stderr[i].src_path).lines[1])
              /\ \A j \in 1..(i - 1) :
                   ctx[e].world.stderr[j].src_path # ctx[e].world.stderr[i].src_path

\* The top-level Document has taken its header; a quote whose first line is
\* "writeup v1" was parsed and that line is its paragraph.
C16_Witness ==
  /\ pc = "parsed"
  /\ VersionOk(lines_read[1])
  /\ ~Exited(ctx["writeup"])
  /\ \E id \in Range(BlocksOf(ctx["writeup"], "Quote")) :
       /\ ctx["writeup"].heap[id].text_lines[1] = <<"writeup v", "1">>
       /\ ctx["writeup"].heap[id].quote_ctx # <<>>
       /\ Len(ctx["writeup"].heap[id].quote_ctx.heap) = 1
       /\ ctx["writeup"].heap[id].quote_ctx.heap[1].type = "Text"

\* Whether text is the line, or what is left of it after one or more quote
\* markers are taken off as line_re does.
RECURSIVE QuotedIn(_, _)
QuotedIn(line, text) ==
  \/ text = line
  \/ line_re(line).lastgroup = "quote" /\ QuotedIn(line_re(line).quote, text)

\* Line number n (1-based) of the source read, without its newline.
SourceLine(n) == rstrip_nl(lines_read[n])

\* The warnings and errors of Ctx.warn and Ctx.error about the source read.
LineReports(e) ==
  {i \in 1..Len(ctx[e].world.stderr) :
     /\ ctx[e].world.stderr[i].kind \in {"warning", "error"}
     /\ ctx[e].world.stderr[i].src_path = src_path}

\* The Ctx of a quote numbers its i-th line as the source numbers it: the Quote
\* block q, whose lines were taken from the lines read by the Ctx above it.
QuoteNumbered(q) ==
  /\ q.quote_ctx.line_offset = q.quote_line_offset
  /\ q.quote_ctx.line_num = q.quote_line_offset + Len(q.text_lines) - 1
  /\ \A i \in 1..Len(q.text_lines) :
       /\ q.quote_line_offset + i <= Len(lines_read)
       /\ line_re(SourceLine(q.quote_line_offset + i)).quote = q.text_lines[i]

\* C17: the i-th line of a quote that covers the source lines N..M is parsed with
\* the line number N+i-1, so every warning and error of the parse of a quote, at
\* any quote depth, carries the number of a line of the source, and the line it
\* shows is that source line without its quote markers.
C17_QuoteLineNumbers ==
  \A e \in Entries :
    /\ \A i \in LineReports(e) :
         /\ ctx[e].world.stderr[i].line_num \in 2..Len(lines_read)
         /\ QuotedIn(SourceLine(ctx[e].world.stderr[i].line_num), ctx[e].world.stderr[i].line)
    /\ \A id \in Range(BlocksOf(ctx[e], "Quote")) :
         ctx[e].heap[id].quote_ctx # <<>> => QuoteNumbered(ctx[e].heap[id])

\* A warning of the parse of a quote in a quote: it is about line 4 of the source,
\* the second line of the outer quote.
C17_Witness ==
  /\ pc = "parsed"
  /\ ~Exited(ctx["writeup"])
  /\ Len(lines_read) = 4
  /\ SourceLine(4) = <<">", " ", ">", " ", "#", " ", " ", "B">>
  /\ line_re(SourceLine(3)).lastgroup = "quote"
  /\ \E i \in LineReports("writeup") :
       /\ ctx["writeup"].world.stderr[i].kind = "warning"
       /\ ctx["writeup"].world.stderr[i].line_num = 4
       /\ ctx["writeup"].world.stderr[i].line = <<"#", " ", " ", "B">>

\* The index paths of the Sections of a Ctx, in the order the Sections were opened.
SectionPaths(c) ==
  [i \in 1..Len(BlocksOf(c, "Section")) |-> c.heap[BlocksOf(c, "Section")[i]].index_path]

\* The lines parsed as a document of their own, at no quote depth and from line 0.
Standalone(lines, should_embed) ==
  parse(Ctx_fields(src_path, should_embed, FALSE, FALSE, 0, 0, NewWorld), lines)

\* The sections of every quote of a Ctx, at any depth, are numbered as the lines of
\* the quote number them on their own.
RECURSIVE QuotesNumberedAfresh(_)
QuotesNumberedAfresh(c) ==
  \A id \in Range(BlocksOf(c, "Quote")) :
    c.heap[id].quote_ctx # <<>>
    => /\ SectionPaths(c.heap[id].quote_ctx)
          = SectionPaths(Standalone(c.heap[id].text_lines, c.should_embed))
       /\ QuotesNumberedAfresh(c.heap[id].quote_ctx)

\* The lines read, every quote line that is not in a list replaced by a paragraph
\* line.
WithoutQuotes ==
  [i \in 1..Len(lines_read) |->
     IF i > 1 /\ line_re(SourceLine(i)).lastgroup = "quote" /\ line_re(SourceLine(i)).indents = <<>>
          /\ line_re(SourceLine(i)).list_star = <<>>
     THEN <<"t", "\n">>
     ELSE lines_read[i]]

\* C18: in a parsed Document, the sections of a quote are numbered afresh from
\* the root of the quote: their index paths are those that the lines of the quote
\* give on their own, however many sections the enclosing Document has opened;
\* and the sections of the enclosing Document are numbered as they are without
\* the quote.
C18_QuoteNumbering ==
  \A e \in Entries :
    ~Exited(ctx[e]) /\ pc = "parsed"
    => /\ QuotesNumberedAfresh(ctx[e])
       /\ LET without == parse(EntryCtx(src_path, e), WithoutQuotes)
          IN ~Exited(without) => SectionPaths(ctx[e]) = SectionPaths(without)

\* A section is open when a quoted header is read, and a section follows the
\* quote: the section of the quote is (0,), the section after the quote is (1,).
C18_Witness ==
  /\ pc = "parsed"
  /\ ~Exited(ctx["writeup"])
  /\ SectionPaths(ctx["writeup"]) = << <<0>>, <<1>> >>
  /\ \E id \in Range(BlocksOf(ctx["writeup"], "Quote")) :
       /\ ctx["writeup"].heap[id].quote_ctx # <<>>
       /\ SectionPaths(ctx["writeup"].heap[id].quote_ctx) = << <<0>> >>
       /\ id > BlocksOf(ctx["writeup"], "Section")[1]
       /\ id < BlocksOf(ctx["writeup"], "Section")[2]

\* The last Document whose parse has returned in the run of a Ctx.
LastDocument(c) == c.world.documents[Len(c.world.documents)]

\* Ctx.pop of the Quote at the top of the stack of c gave after: but for the pop
\* itself, only the Quote and the process (stderr, files, exit) have changed, and
\* if the run goes on the parse of the child has returned, its stack empty.
QuotePopFrame(c, after) ==
  /\ [after EXCEPT !.world = c.world, !.heap[Ctx_top(c)] = c.heap[Ctx_top(c)],
                   !.closed = c.closed]
     = [c EXCEPT !.stack = SubSeq(c.stack, 1, Len(c.stack) - 1)]
  /\ ~Exited(after)
     => /\ after.heap[Ctx_top(c)].text_lines = c.heap[Ctx_top(c)].text_lines
        /\ after.heap[Ctx_top(c)].quote_ctx.stack = <<>>
        /\ Len(after.world.documents) > Len(c.world.documents)
        /\ LastDocument(after) = [after.heap[Ctx_top(c)].quote_ctx EXCEPT !.world = NewWorld]

\* embed(c, text, attrs) of a .wu file gave r: the Ctx has registered the path, and
\* nothing else of it has changed but the process; if the run goes on the parse of
\* the embedded Document has returned, its stack empty.
EmbedFrame(c, text, r) ==
  /\ [r.ctx EXCEPT !.world = c.world] = Ctx_add_dependency(c, embed_path(c.search_dir, text))
  /\ ~Exited(r.ctx)
     => /\ Len(r.ctx.world.documents) > Len(c.world.documents)
        /\ LastDocument(r.ctx).src_path = embed_path(c.search_dir, text)
        /\ LastDocument(r.ctx).stack = <<>>

\* The dependencies of a Ctx are the paths its own titles and paragraphs refer to.
OwnDependencies(c) == Range(c.dependencies) = ReferencedPaths(OwnSpans(c))

\* C19: the parse of a quote or of an embedded .wu Document has its own state: it
\* leaves the stack, the line number, the license lines and the dependencies of
\* the parent Ctx as they are, and it has returned when the parent goes on.
C19_SubParseOwnsState ==
  \A e \in Entries :
    ~Exited(ctx[e]) =>
      /\ TopType(ctx[e]) = "Quote" => QuotePopFrame(ctx[e], Ctx_pop(ctx[e]))
      /\ ctx[e].should_embed
         => EmbedFrame(ctx[e], <<"d", ".wu">>, embed(ctx[e], <<"d", ".wu">>, <<>>))
      /\ OwnDependencies(ctx[e])
      /\ \A k \in 1..Len(Documents(e)) : OwnDependencies(Documents(e)[k])
      /\ \A id \in Range(BlocksOf(ctx[e], "Quote")) :
           ctx[e].heap[id].quote_ctx # <<>> => ctx[e].heap[id].quote_ctx.stack = <<>>

\* The parse of a quote has returned with a dependency of its own; the Ctx of the
\* Document that holds the quote has none, and has gone on to open a paragraph.
C19_Witness ==
  /\ pc = "lines"
  /\ ~Exited(ctx["writeup_dependencies"])
  /\ ctx["writeup_dependencies"].dependencies = <<>>
  /\ TopType(ctx["writeup_dependencies"]) = "Text"
  /\ \E id \in Range(BlocksOf(ctx["writeup_dependencies"], "Quote")) :
       /\ ctx["writeup_dependencies"].heap[id].quote_ctx # <<>>
       /\ ctx["writeup_dependencies"].heap[id].quote_ctx.dependencies # <<>>
       /\ ctx["writeup_dependencies"].heap[id].quote_ctx.stack = <<>>

\* The errors that span_angle_conv and embed raise for an angle span.
SpanErrors ==
  {"span has invalid tag", "span has no body", "span attribute name is invalid",
   "span attribute value is empty", "span attribute value has mismatched quotes",
   "embedded file not found", "embedded file has unknown extension type"}

\* C20: every warning and error about a construct of the source is reported with
\* the number and the text of the line that holds the construct: the error of an
\* angle span shows a line that holds an angle span, and the error of an unknown
\* tag a line that holds a span of an unknown tag.
C20_ReportedAtItsLine ==
  \A e \in Entries :
    \A i \in 1..Len(ctx[e].world.stderr) :
      /\ ctx[e].world.stderr[i].msg \in SpanErrors
         => AngleTexts(ctx[e].world.stderr[i].line, 1) # {}
      /\ ctx[e].world.stderr[i].msg = "span has invalid tag"
         => UnknownTag(ctx[e].world.stderr[i].line)

\* Whether no Section of a Ctx is inside a list: on the stack no Section is above a
\* UList or a ListItem, and no ListItem holds a Section among its blocks.
NoSectionInList(c) ==
  /\ \A i \in 1..Len(c.stack) : \A j \in 1..Len(c.stack) :
       i < j /\ c.heap[c.stack[i]].type \in {"UList", "ListItem"}
       => c.heap[c.stack[j]].type # "Section"
  /\ \A id \in 1..Len(c.heap) :
       c.heap[id].type = "ListItem"
       => \A k \in 1..Len(c.heap[id].blocks) : c.heap[c.heap[id].blocks[k]].type # "Section"

\* C21: no Section is ever inside a list, on the stack of a Ctx or in the tree of
\* a Document; and once a section header is processed, the stack holds Sections
\* only: every list, list item and leaf block that was open has been popped.
C21_NoSectionInList ==
  \A e \in Entries :
    /\ NoSectionInList(ctx[e])
    /\ \A k \in 1..Len(Documents(e)) : NoSectionInList(Documents(e)[k])
    /\ LineProcessed(ctx[e]) /\ ~Exited(ctx[e]) /\ ctx[e].prev_state = s_section
       => \A i \in 1..Len(ctx[e].stack) : ctx[e].heap[ctx[e].stack[i]].type = "Section"

\* The header ### D was read after a list item and a blank line, the item still
\* open: the list is closed and the Section is the only Block of the stack.
C21_Witness ==
  /\ nread = 3
  /\ ~Exited(ctx["writeup"])
  /\ ctx["writeup"].prev_state = s_section
  /\ ctx["writeup"].line = <<"#", "#", "#", " ", "D">>
  /\ Len(ctx["writeup"].stack) = 1
  /\ TopType(ctx["writeup"]) = "Section"
  /\ Len(BlocksOf(ctx["writeup"], "ListItem")) = 1
  /\ \A id \in Range(BlocksOf(ctx["writeup"], "ListItem")) : ctx["writeup"].heap[id].finished = 1

\* The indices of the lines of an output that open the license footer.
FooterLines(html) == {i \in 1..Len(html) : html[i] = <<"<footer id=footer>">>}

\* The indices of the lines of an output that close a section.
SectionCloseLines(html) ==
  {i \in 1..Len(html) : html[i] # <<>> /\ html[i][Len(html[i])] = "</section>"}

\* Whether an output is a full document: it begins with the document head.
FullDocument(html) == html # <<>> /\ html[1] = <<"<!DOCTYPE html>">>

\* C22: the output of writeup holds the license footer at most once, after the
\* close tag of every section; it holds it exactly when the output is a full
\* document (emit_doc) and the Document has captured a license line, and the
\* footer holds the license lines.
C22_LicenseFooter ==
  result["writeup"].returned =>
    /\ Cardinality(FooterLines(result["writeup"].value)) <= 1
    /\ \A i \in FooterLines(result["writeup"].value) :
         /\ \A j \in SectionCloseLines(result["writeup"].value) : j < i
         /\ result["writeup"].value[i + 1]
            = join(<<"<br />", "\n">>, ctx["writeup"].license_lines)
    /\ FooterLines(result["writeup"].value) # {}
       <=> /\ FullDocument(result["writeup"].value)
           /\ ctx["writeup"].license_lines # <<>>

\* A full document with a license line and a section: the footer follows the
\* close tag of the section.
C22_Witness ==
  /\ result["writeup"].returned
  /\ ctx["writeup"].license_lines = << <<"Copyright", " ", "x">> >>
  /\ SectionCloseLines(result["writeup"].value) # {}
  /\ Cardinality(FooterLines(result["writeup"].value)) = 1

\* writeup rendering the tree of a Ctx once more, first being what the first
\* rendering gave: the Ctx of the second rendering is the Ctx the first one left.
RenderedAgain(first, opt) == writeup(first.ctx, opt.js, opt.emit_doc, opt.target_section)

\* Whether a second rendering gives the lines of the first, and the lines emitted
\* from the state of the renderer (the tables of section ids) are the same too.
SameTwice(first, opt) == RenderedAgain(first, opt).html = first.html

\* C23: a parsed Document rendered twice with the same options gives the same
\* lines both times, the lines derived from the state of the renderer included.
C23_RenderTwice ==
  pc = "parsed" /\ ~Exited(ctx["writeup"])
  => \A opt \in RenderOptions :
       SameTwice(writeup(ctx["writeup"], opt.js, opt.emit_doc, opt.target_section), opt)

\* The tag a marked span was written with.
SpanTag(span) ==
  CASE span.type = "BoldSpan" -> <<"b">>
    [] span.type = "EmbedSpan" -> <<"embed">>
    [] span.type = "GenericSpan" -> <<"span">>
    [] OTHER -> span.tag

\* The source extent of a span without attributes: the plain run itself, the code
\* between its backticks, the tag and the body between the angle brackets.
SpanSource(span) ==
  IF span.type = "Span" THEN span.text
  ELSE IF span.type = "CodeSpan" THEN <<BACKTICK>> \o span.text \o <<BACKTICK>>
  ELSE <<"<">> \o SpanTag(span) \o <<":">> \o span.text \o <<">">>

\* Whether spans cover text exactly once and in order: their source extents joined
\* are text, no plain span is empty, no plain span holds a marked span, and no two
\* plain spans are neighbours.
Covers(spans, text) ==
  /\ Flatten([i \in 1..Len(spans) |-> SpanSource(spans[i])]) = text
  /\ \A i \in 1..Len(spans) :
       spans[i].type = "Span"
       => /\ spans[i].text # <<>>
          /\ span_re_search(spans[i].text, 1) = 0
          /\ i < Len(spans) => spans[i + 1].type # "Span"

\* The payloads whose spans have their source extent known from the span: every
\* angle span has its colon and no attribute.
PlainlyMarked(spans, text) ==
  ~MissingColon(text) /\ \A i \in 1..Len(spans) : spans[i].attrs = <<>>

\* The converted lines of the paragraphs of a Ctx, and the title of the header it
\* has just processed, are covered by their spans.
SpansCover(c) ==
  /\ \A id \in Range(BlocksOf(c, "Text")) :
       \A i \in 1..Len(c.heap[id].lines) :
         PlainlyMarked(c.heap[id].lines[i], c.heap[id].text_lines[i])
         => Covers(c.heap[id].lines[i], c.heap[id].text_lines[i])
  /\ ~Exited(c) /\ c.prev_state = s_section /\ TopType(c) = "Section"
     => (PlainlyMarked(c.heap[Ctx_top(c)].title, line_re(c.line).section_title)
         => Covers(c.heap[Ctx_top(c)].title, line_re(c.line).section_title))

\* C24: the spans parse_spans returns for a payload are in source order and their
\* source extents cover the payload exactly once, without gap, overlap or empty
\* plain span, in every Document and for titles as for paragraph lines.
C24_SpansCoverPayload ==
  \A e \in Entries :
    /\ SpansCover(ctx[e])
    /\ \A k \in 1..Len(Documents(e)) : SpansCover(Documents(e)[k])

\* The paragraph line Hello `world`. is converted to the plain span "Hello ", the
\* code span "world" and the plain span ".".
C24_Witness ==
  \E id \in Range(BlocksOf(ctx["writeup"], "Text")) :
    /\ ctx["writeup"].heap[id].text_lines
       = << <<"Hello", " ", BACKTICK, "world", BACKTICK, ".">> >>
    /\ ctx["writeup"].heap[id].lines
       = << <<Span(<<"Hello", " ">>), CodeSpan(<<"world">>), Span(<<".">>)>> >>

\* The lines read, the payload of every code line replaced by the plain payload c.
WithPlainCode ==
  [i \in 1..Len(lines_read) |->
     IF i > 1 /\ line_re(SourceLine(i)).lastgroup = "code"
     THEN SubSeq(SourceLine(i), 1, Len(SourceLine(i)) - Len(line_re(SourceLine(i)).code))
          \o <<"c">> \o From(lines_read[i], Len(SourceLine(i)) + 1)
     ELSE lines_read[i]]

\* What a run reports, the text of the reported line left out.
ReportsMade(c) ==
  [i \in 1..Len(c.world.stderr) |->
     <<c.world.stderr[i].kind, c.world.stderr[i].msg, c.world.stderr[i].line_num>>]

\* Whether a run and the run on the lines with plain code agree: both end by exit
\* or neither does, with the same reports and the same dependencies.
SameOutcome(c, plain) ==
  /\ Exited(plain) = Exited(c)
  /\ ReportsMade(plain) = ReportsMade(c)
  /\ ~Exited(c) => plain.dependencies = c.dependencies

\* No Code block of a Ctx has spans or a sub-parse.
CodeUnconverted(c) ==
  \A id \in Range(BlocksOf(c, "Code")) : c.heap[id].lines = <<>> /\ c.heap[id].quote_ctx = <<>>

\* C25: the lines of a Code block are never span-converted: a Code block holds its
\* raw lines only, and a run that has ended (parsed, or exited) has the outcome of
\* the run in which every code line holds plain text: the same exit or none, the
\* same reports, the same dependencies.
C25_CodeNeverConverted ==
  \A e \in Entries :
    /\ CodeUnconverted(ctx[e])
    /\ \A k \in 1..Len(Documents(e)) : CodeUnconverted(Documents(e)[k])
    /\ (pc = "parsed" \/ Exited(ctx[e])) /\ WithPlainCode # lines_read
       => SameOutcome(ctx[e], parse(EntryCtx(src_path, e), WithPlainCode))

\* A parsed Document whose Code block holds an embed of an absent file and a link:
\* neither entry point has exited, and no dependency is registered.
C25_Witness ==
  /\ pc = "parsed"
  /\ \A e \in Entries :
       /\ ~Exited(ctx[e])
       /\ ctx[e].dependencies = <<>>
       /\ \E id \in Range(BlocksOf(ctx[e], "Code")) :
            ctx[e].heap[id].text_lines
            = << <<"<", "embed", ":", "missing", ".txt", ">">>, <<"<", "link", ":", "p", ">">> >>

\* The reports of entry point e that a line lacks its final newline.
NewlineWarnings(e) ==
  {i \in LineReports(e) : ctx[e].world.stderr[i].msg = "missing final newline."}

\* Whether entry point e has processed the last line read.
ReadToLastLine(e) == pc # "version" /\ ctx[e].enum_next = nread + 1

\* C26: the warning of a missing final newline is only made by the top-level
\* parse, for the source line that lacks its newline, and it is made for that
\* line; a quote sub-parse, whose lines all come without a newline, never makes it.
C26_NewlineWarning ==
  \A e \in Entries :
    /\ Cardinality(NewlineWarnings(e)) <= 1
    /\ \A i \in NewlineWarnings(e) :
         /\ ctx[e].world.stderr[i].kind = "warning"
         /\ ctx[e].world.stderr[i].line_num \in 2..Len(lines_read)
         /\ ~endswith(lines_read[ctx[e].world.stderr[i].line_num], "\n")
         /\ ctx[e].world.stderr[i].line = lines_read[ctx[e].world.stderr[i].line_num]
    /\ /\ ReadToLastLine(e)
       /\ nread >= 1
       /\ ~endswith(lines_read[Len(lines_read)], "\n")
       => NewlineWarnings(e) # {}

\* The quote line > q ends the source without a newline: the top-level parse has
\* warned about it, and the sub-parse of the quote, done on the line q, has not.
C26_Witness ==
  /\ pc = "parsed"
  /\ ~Exited(ctx["writeup"])
  /\ lines_read[Len(lines_read)] = <<">", " ", "q">>
  /\ \E i \in NewlineWarnings("writeup") :
       ctx["writeup"].world.stderr[i].line = <<">", " ", "q">>
  /\ \E id \in Range(BlocksOf(ctx["writeup"], "Quote")) :
       /\ ctx["writeup"].heap[id].quote_ctx # <<>>
       /\ ctx["writeup"].heap[id].quote_ctx.line = <<"q">>
       /\ "\n" \notin Range(ctx["writeup"].heap[id].text_lines[1])

\* The places of an output where an element id of a section or of a heading
\* begins: <<line, symbol>>.
IdPlaces(html) ==
  {p \in UNION {{<<i, k>> : k \in 1..Len(html[i])} : i \in 1..Len(html)} :
     html[p[1]][p[2]] \in {" id=", " id=h"}}

\* The id that begins at a place: up to the > that ends the tag.
IdAt(html, p) ==
  (IF html[p[1]][p[2]] = " id=h" THEN <<"h">> ELSE <<>>)
  \o SubSeq(html[p[1]], p[2] + 1,
            Min({k \in (p[2] + 1)..Len(html[p[1]]) : html[p[1]][k] = ">"}) - 1)

\* C27: in the output of a Document that embeds no other writeup file, no two
\* elements have the same id: the section id and the heading id of a section in a
\* quote differ from those of every section of the enclosing Document and of every
\* other quote.
C27_IdsDistinct ==
  /\ result["writeup"].returned
  /\ \A k \in 1..Len(Documents("writeup")) : Documents("writeup")[k].src_path = src_path
  => \A p \in IdPlaces(result["writeup"].value) : \A q \in IdPlaces(result["writeup"].value) :
       p # q => IdAt(result["writeup"].value, p) # IdAt(result["writeup"].value, q)

\* The step in which entry point e processes a line with leaf content and accepts it.
LeafStep(e) ==
  /\ nread' = nread + 1
  /\ ~Exited(ctx[e])
  /\ ~Exited(ctx'[e])
  /\ ~is_license_line(ctx[e].prev_state, ctx'[e].line)
  /\ line_re(ctx'[e].line).lastgroup \in {"quote", "code", "text"}

\* The class, the payload and the list level of a line with leaf content.
LeafKind(line) == leaf_block_type(line_groups_to_states(line_re(line).lastgroup)).type

LeafPayload(line) == leaf_line(line_groups_to_states(line_re(line).lastgroup), line_re(line))

LeafLevel(line) == Len(line_re(line).indents) \div 2

\* The line is appended to the open leaf block: nothing else changes in the tree.
LeafAppended(before, after, line) ==
  /\ after.stack = before.stack
  /\ after.heap = [before.heap EXCEPT ![Ctx_top(before)].text_lines = Append(@, LeafPayload(line))]

\* How much of the stack a leaf line of list level l leaves open: up to the
\* innermost open ListItem of level l, or up to the innermost open Section.
KeptDepth(before, l) ==
  Max({0} \cup {i \in 1..Len(before.stack) :
                  \/ before.heap[before.stack[i]].type = "Section"
                  \/ /\ before.heap[before.stack[i]].type = "ListItem"
                     /\ before.heap[before.stack[i]].list_level = l})

\* A new leaf block is pushed for the line on the first n Blocks of the stack: the
\* Blocks above them are popped, and the new Block is the last block of the n-th,
\* or of the Ctx when n = 0.
LeafPushed(before, after, line, n) ==
  /\ Len(after.heap) = Len(before.heap) + 1
  /\ after.stack = SubSeq(before.stack, 1, n) \o <<Len(after.heap)>>
  /\ after.heap[Len(after.heap)].type = LeafKind(line)
  /\ after.heap[Len(after.heap)].text_lines = <<LeafPayload(line)>>
  /\ \A i \in (n + 1)..Len(before.stack) : after.heap[before.stack[i]].finished = 1
  /\ IF n = 0 THEN after.blocks = Append(before.blocks, Len(after.heap))
     ELSE /\ after.heap[before.stack[n]].blocks
             = Append(before.heap[before.stack[n]].blocks, Len(after.heap))
          /\ after.heap[before.stack[n]].type
             = IF LeafLevel(line) = 0 THEN "Section" ELSE "ListItem"

\* A list-item line with leaf content: the leaf block is new, pushed on the
\* ListItem the line has opened.
LeafPushedOnItem(before, after, line) ==
  /\ Len(after.heap) >= Len(before.heap) + 2
  /\ Len(after.stack) >= 2
  /\ after.stack[Len(after.stack)] = Len(after.heap)
  /\ after.stack[Len(after.stack) - 1] = Len(after.heap) - 1
  /\ after.heap[Len(after.heap) - 1].type = "ListItem"
  /\ after.heap[Len(after.heap) - 1].list_level = LeafLevel(line) + 1
  /\ after.heap[Len(after.heap) - 1].blocks = <<Len(after.heap)>>
  /\ after.heap[Len(after.heap)].type = LeafKind(line)
  /\ after.heap[Len(after.heap)].text_lines = <<LeafPayload(line)>>

LeafPlaced(before, after, line) ==
  IF line_re(line).list_star # <<>> THEN LeafPushedOnItem(before, after, line)
  ELSE IF TopType(before) = LeafKind(line) /\ Ctx_list_level(before) = LeafLevel(line)
    THEN LeafAppended(before, after, line)
  ELSE LeafPushed(before, after, line, KeptDepth(before, LeafLevel(line)))

\* C28: a leaf line is appended to the leaf block that is open when
\* append_to_leaf_block is called exactly when that block has the kind and the
\* list level of the line.  Otherwise the open leaf and the lists deeper than the
\* line are popped, and a new leaf block is pushed under the innermost open
\* ListItem of the level of the line, or under the open Section or the root at
\* level 0.  On a list-item line the item is opened first, and the leaf is new.
C28_LeafPlacement ==
  [][\A e \in Entries : LeafStep(e) => LeafPlaced(ctx[e], ctx'[e], ctx'[e].line)]_vars

\* After the item * a the line "  u" was appended to the paragraph of the item,
\* and the line t has closed the list and opened a paragraph at the root.
C28_Witness ==
  /\ nread = 3
  /\ ~Exited(ctx["writeup"])
  /\ ctx["writeup"].line = <<"t">>
  /\ Len(ctx["writeup"].stack) = 1
  /\ TopType(ctx["writeup"]) = "Text"
  /\ ctx["writeup"].heap[Ctx_top(ctx["writeup"])].text_lines = << <<"t">> >>
  /\ \E id \in Range(BlocksOf(ctx["writeup"], "Text")) :
       /\ ctx["writeup"].heap[id].text_lines = << <<"a">>, <<"u">> >>
       /\ ctx["writeup"].heap[id].finished = 1

\* The step in which entry point e processes a list-item line and accepts it.
ItemStep(e) == ListItemStep(e) /\ ~Exited(ctx'[e])

\* The positions of the stack that hold an open UList of level l.
OpenULists(c, l) ==
  {i \in 1..Len(c.stack) : c.heap[c.stack[i]].type = "UList" /\ c.heap[c.stack[i]].list_level = l}

\* The new ListItem is appended to the UList at position i of the stack: no UList
\* is created, the Blocks above the UList are popped, the item is pushed on it.
ItemAppended(before, after, l, i) ==
  /\ BlocksOf(after, "UList") = BlocksOf(before, "UList")
  /\ after.heap[Len(before.heap) + 1].type = "ListItem"
  /\ after.heap[Len(before.heap) + 1].list_level = l
  /\ after.heap[before.stack[i]].items
     = Append(before.heap[before.stack[i]].items, Len(before.heap) + 1)
  /\ SubSeq(after.stack, 1, i + 1) = SubSeq(before.stack, 1, i) \o <<Len(before.heap) + 1>>
  /\ \A j \in (i + 1)..Len(before.stack) : after.heap[before.stack[j]].finished = 1

\* A new UList of level l is pushed, with the new ListItem as its only item: under
\* the open ListItem of level l - 1, or under the open Section or the root.
ListOpened(before, after, l) ==
  /\ BlocksOf(after, "UList") = Append(BlocksOf(before, "UList"), Len(before.heap) + 1)
  /\ after.heap[Len(before.heap) + 1].list_level = l
  /\ after.heap[Len(before.heap) + 1].items = <<Len(before.heap) + 2>>
  /\ after.heap[Len(before.heap) + 2].type = "ListItem"
  /\ after.heap[Len(before.heap) + 2].list_level = l
  /\ \E n \in 0..Len(before.stack) :
       /\ SubSeq(after.stack, 1, n + 2)
          = SubSeq(before.stack, 1, n) \o <<Len(before.heap) + 1, Len(before.heap) + 2>>
       /\ \A j \in (n + 1)..Len(before.stack) : after.heap[before.stack[j]].finished = 1
       /\ IF l > 1
          THEN /\ n > 0
               /\ before.heap[before.stack[n]].type = "ListItem"
               /\ before.heap[before.stack[n]].list_level = l - 1
          ELSE n = 0 \/ before.heap[before.stack[n]].type = "Section"

ItemPlaced(before, after, l) ==
  IF OpenULists(before, l) # {}
  THEN ItemAppended(before, after, l, Max(OpenULists(before, l)))
  ELSE ListOpened(before, after, l)

\* C29: a list-item line of level L appends its new ListItem to the open UList of
\* level L when there is one, everything deeper being popped, and pushes a new
\* UList of level L only when none is open; a blank line closes no list, so the
\* items before and after it are items of the same UList.
C29_ItemPlacement ==
  [][\A e \in Entries : ItemStep(e) => ItemPlaced(ctx[e], ctx'[e], ItemLevel(ctx'[e].line))]_vars

\* Two items * a with a blank line between them: one UList, with two items.
C29_Witness ==
  /\ nread = 3
  /\ ~Exited(ctx["writeup"])
  /\ SourceLine(3) = <<>>
  /\ ctx["writeup"].line = <<"*", " ", "a">>
  /\ Len(BlocksOf(ctx["writeup"], "UList")) = 1
  /\ Len(ctx["writeup"].heap[BlocksOf(ctx["writeup"], "UList")[1]].items) = 2

\* Every Block of a Ctx is finished once, when it is popped: an open Block is not
\* finished, a popped one is finished exactly once.  A paragraph has no spans and
\* a quote no sub-parse while open; once popped, in a run that goes on, the
\* paragraph has the spans of each of its lines and the quote a Ctx that has
\* parsed each of its lines.
FinishedAtPop(c) ==
  \A id \in 1..Len(c.heap) :
    /\ c.heap[id].finished = (IF id \in Range(c.stack) THEN 0 ELSE 1)
    /\ c.heap[id].type = "Text"
       => IF c.heap[id].finished = 0 THEN c.heap[id].lines = <<>>
          ELSE ~Exited(c) => Len(c.heap[id].lines) = Len(c.heap[id].text_lines)
    /\ c.heap[id].type = "Quote"
       => IF c.heap[id].finished = 0
          THEN c.heap[id].quote_ctx = <<>> /\ c.heap[id].blocks = <<>>
          ELSE ~Exited(c)
               => /\ c.heap[id].quote_ctx # <<>>
                  /\ c.heap[id].quote_ctx.enum_next
                     = c.heap[id].quote_ctx.line_offset + Len(c.heap[id].text_lines)

\* The title of a header is converted while the header is processed: the Section
\* it has pushed is open and holds the spans, and an unknown tag in the title has
\* ended the run on the header.
TitleAtHeader(c) ==
  pc \in {"lines", "eof"} /\ LineProcessed(c) /\ line_re(c.line).lastgroup = "section_title"
  => \/ Exited(c)
     \/ /\ TopType(c) = "Section"
        /\ line_re(c.line).section_title # <<>> => c.heap[Ctx_top(c)].title # <<>>
        /\ ~UnknownTag(line_re(c.line).section_title)

\* C30: the spans of a paragraph and the sub-parse of a quote are made once, when
\* the block is popped and not when its lines are appended; the title of a section
\* is converted while its header is processed.
C30_ConvertedAtPop ==
  \A e \in Entries :
    /\ FinishedAtPop(ctx[e])
    /\ \A k \in 1..Len(Documents(e)) : FinishedAtPop(Documents(e)[k])
    /\ TitleAtHeader(ctx[e])

\* A paragraph line with a span of unknown tag is read and the paragraph is open:
\* the run goes on, the paragraph has no spans yet; a quote was closed before it
\* and has its sub-parse.
C30_Witness ==
  /\ pc = "lines"
  /\ ~Exited(ctx["writeup"])
  /\ TopType(ctx["writeup"]) = "Text"
  /\ ctx["writeup"].heap[Ctx_top(ctx["writeup"])].text_lines
     = << <<"<", "foo", ":", "bar", ">">> >>
  /\ ctx["writeup"].heap[Ctx_top(ctx["writeup"])].lines = <<>>
  /\ \E id \in Range(BlocksOf(ctx["writeup"], "Quote")) :
       /\ ctx["writeup"].heap[id].finished = 1
       /\ ctx["writeup"].heap[id].quote_ctx # <<>>

\* C31: license capture begins only on the first line after the version header
\* (the first line of the lines of a quote): when that line does not match the
\* license pattern, the document has no license line, whatever lines follow.
C31_LicenseOnlyAtStart ==
  \A e \in Entries :
    /\ pc # "version" /\ ContentLines # <<>> /\ ~license_re(ContentLines[1])
       => ctx[e].license_lines = <<>>
    /\ \A id \in Range(BlocksOf(ctx[e], "Quote")) :
         /\ ctx[e].heap[id].quote_ctx # <<>>
         /\ ~license_re(ctx[e].heap[id].text_lines[1])
         => ctx[e].heap[id].quote_ctx.license_lines = <<>>

\* Three lines were parsed: the first is not a notice line, a later one matches
\* the license pattern and follows a blank line.
C31_Witness ==
  /\ ~Exited(ctx["writeup"])
  /\ pc = "parsed"
  /\ nread = 3
  /\ ~license_re(ContentLines[1])
  /\ ContentLines[2] = <<>>
  /\ license_re(ContentLines[3])

\* The words of an angle span from its first body word on: the leading key=value
\* words, up to a bare ; or to a value that ends with ;, are left out.
RECURSIVE BodyWords(_)
BodyWords(words) ==
  IF words = <<>> THEN <<>>
  ELSE IF words[1] = <<";">> THEN Tail(words)
  ELSE IF words[1] = <<>> THEN BodyWords(Tail(words))
  ELSE IF "=" \notin Range(words[1]) THEN words
  ELSE IF endswith(words[1], ";") THEN Tail(words)
  ELSE BodyWords(Tail(words))

\* Whether a paragraph line is one angle span with its colon.
OneAngleSpan(text, spans) ==
  /\ Len(spans) = 1
  /\ spans[1].type \in {"BoldSpan", "GenericSpan", "LinkSpan"}
  /\ Len(text) > 2 /\ text[1] = "<" /\ text[Len(text)] = ">"
  /\ ~MissingColon(text)

\* The words after the colon of a line that is one angle span.
SpanWords(text) == split(partition(SubSeq(text, 2, Len(text) - 1), ":")[3], " ")

\* The body of a span is its words from the first body word on; the first word of
\* a span with a link tag is a body word.
BodyIsSuffix(text, span) ==
  span.text = join(<<" ">>, IF SpanTag(span) \in span_link_tags THEN SpanWords(text)
                            ELSE BodyWords(SpanWords(text)))

\* C32: in an angle span, key=value words are attributes only before the body
\* words: from the first body word on, every word of the span is part of the body,
\* a word that holds an = included.
C32_AttributesPrecedeBody ==
  \A e \in Entries :
    \A id \in Range(BlocksOf(ctx[e], "Text")) :
      \A i \in 1..Len(ctx[e].heap[id].lines) :
        OneAngleSpan(ctx[e].heap[id].text_lines[i], ctx[e].heap[id].lines[i])
        => BodyIsSuffix(ctx[e].heap[id].text_lines[i], ctx[e].heap[id].lines[i][1])

\* The number of Sections at the bottom of the stack of a Ctx.
SectionsOpen(c) == Cardinality({i \in 1..Len(c.stack) : c.heap[c.stack[i]].type = "Section"})

\* The number of UList and ListItem blocks on the stack of a Ctx.
ListsOpen(c) ==
  Cardinality({i \in 1..Len(c.stack) : c.heap[c.stack[i]].type \in {"UList", "ListItem"}})

\* The shape of the stack: Sections, then UList and ListItem in pairs of the
\* levels 1, 1, 2, 2, ..., then at most one leaf block.
StackShape(c) ==
  /\ \A i \in 1..SectionsOpen(c) : c.heap[c.stack[i]].type = "Section"
  /\ \A j \in 1..ListsOpen(c) :
       /\ c.heap[c.stack[SectionsOpen(c) + j]].type
          = (IF j % 2 = 1 THEN "UList" ELSE "ListItem")
       /\ c.heap[c.stack[SectionsOpen(c) + j]].list_level = (j + 1) \div 2
  /\ ListsOpen(c) % 2 = 0
  /\ Len(c.stack) <= SectionsOpen(c) + ListsOpen(c) + 1
  /\ Len(c.stack) = SectionsOpen(c) + ListsOpen(c) + 1 => TopType(c) \in LeafBlock

\* No assertion has failed in a run, the parses of its quotes and embeds included.
NoAssertionFailed(c) ==
  \A i \in 1..Len(c.world.stderr) : c.world.stderr[i].kind # "AssertionError"

\* C33: after every line the stack of open blocks is zero or more Sections, then
\* UList/ListItem pairs of the levels 1, 1, 2, 2, ..., n, n, then at most one leaf
\* block; the assertions of the list-item step and of close_leaf_block fail on no
\* input, in the document and in the documents of its quotes.
C33_StackShape ==
  \A e \in Entries : StackShape(ctx[e]) /\ NoAssertionFailed(ctx[e])

\* Under a Section, the lists of the levels 1 and 2 are open with their items, and
\* a paragraph is open in the item of level 2.
C33_Witness ==
  /\ ~Exited(ctx["writeup"])
  /\ pc = "lines"
  /\ [i \in 1..Len(ctx["writeup"].stack) |-> ctx["writeup"].heap[ctx["writeup"].stack[i]].type]
     = <<"Section", "UList", "ListItem", "UList", "ListItem", "Text">>

\* Whether no two Sections of a Ctx have the same index path.
PathsDistinct(c) ==
  \A i, j \in 1..Len(SectionPaths(c)) : i # j => SectionPaths(c)[i] # SectionPaths(c)[j]

\* C34: within one Document, the documents of quotes and embeds judged each on
\* its own, no two Sections have the same index path, whatever headers were
\* accepted, a first header of more than one # included.
C34_PathsDistinct ==
  \A e \in Entries :
    /\ PathsDistinct(ctx[e])
    /\ \A k \in 1..Len(Documents(e)) : PathsDistinct(Documents(e)[k])

\* The first header has three #; a header of two # and one of one # followed it,
\* and the three Sections have the paths (0), (0, 1) and (1).
C34_Witness ==
  /\ ~Exited(ctx["writeup"])
  /\ BlocksOf(ctx["writeup"], "Section") # <<>>
  /\ ctx["writeup"].heap[BlocksOf(ctx["writeup"], "Section")[1]].section_depth = 3
  /\ SectionPaths(ctx["writeup"]) = << <<0>>, <<0, 1>>, <<1>> >>

\* The lines of a Quote that hold content: a header, a quote, a code or a paragraph
\* line; every other line is a blank separator.
QuotedContent(text_lines) ==
  SelectSeq(text_lines,
            LAMBDA l : line_re(l).lastgroup \in {"section_title", "quote", "code", "text"})

\* The number of lines a Ctx has consumed as block content: one per Section for
\* its title and the lines of its leaf blocks.
LinesConsumed(c) ==
  Len(BlocksOf(c, "Section"))
  + Len(Flatten([id \in 1..Len(c.heap) |->
                   IF c.heap[id].type \in LeafBlock THEN c.heap[id].text_lines ELSE <<>>]))

\* C35: every line captured by a Quote is consumed by the parse of the quote as
\* block content or as a blank separator: every line of content is the title of
\* a Section or a line of a leaf block of the quote, and none is put among the
\* license lines of the Ctx of the quote.
C35_QuotedLinesKept ==
  \A e \in Entries :
    \A id \in Range(BlocksOf(ctx[e], "Quote")) :
      ctx[e].heap[id].quote_ctx # <<>>
      => /\ ctx[e].heap[id].quote_ctx.license_lines = <<>>
         /\ LinesConsumed(ctx[e].heap[id].quote_ctx)
            = Len(QuotedContent(ctx[e].heap[id].text_lines))

\* The paths the spans of the top-level parse register, one per reference: the
\* path of every embed span and the target of every link: span.
Registered(c) ==
  [i \in 1..Len(SelectSeq(OwnSpans(c), LAMBDA s : s.type = "EmbedSpan" \/ s.tag = <<"link">>)) |->
     LET s == SelectSeq(OwnSpans(c), LAMBDA t : t.type = "EmbedSpan" \/ t.tag = <<"link">>)[i]
     IN IF s.type = "EmbedSpan" THEN s.path ELSE s.link]

\* How many times x is in the list l.
Occurrences(l, x) == Cardinality({i \in 1..Len(l) : l[i] = x})

\* C36: writeup_dependencies returns the paths the top-level parse registered in
\* ascending order, each as many times as it is referenced.
C36_DependenciesSorted ==
  result["writeup_dependencies"].returned
  => /\ \A i \in 1..(Len(result["writeup_dependencies"].value) - 1) :
          str_le(result["writeup_dependencies"].value[i],
                 result["writeup_dependencies"].value[i + 1])
     /\ Len(result["writeup_dependencies"].value)
        = Len(Registered(ctx["writeup_dependencies"]))
     /\ \A x \in Range(Registered(ctx["writeup_dependencies"])) :
          Occurrences(result["writeup_dependencies"].value, x)
          = Occurrences(Registered(ctx["writeup_dependencies"]), x)

\* missing.txt was referenced, then a.txt, then missing.txt again: the list
\* returned holds a.txt first and missing.txt twice.
C36_Witness ==
  /\ result["writeup_dependencies"].returned
  /\ Registered(ctx["writeup_dependencies"])
     = << <<"missing", ".txt">>, <<"a", ".txt">>, <<"missing", ".txt">> >>
  /\ result["writeup_dependencies"].value
     = << <<"a", ".txt">>, <<"missing", ".txt">>, <<"missing", ".txt">> >>

====
